---- MODULE Spec2Model ----
(***************************************************************************)
(* State-machine model of icebeat: the cache-aside Store (store.py) over   *)
(* SQLiteStorage (storage.py) and TimedCache (cache.py), and the Music cog *)
(* (cogs/music.py): guards, commands and Lavalink / gateway event hooks.   *)
(*                                                                         *)
(* Every `await` of the source is a step boundary: the effect of the       *)
(* awaited call happens in one step and the code after the await runs in   *)
(* a later step of the same task, so other tasks may run in between.       *)
(* A statement and the commit that follows it in the same storage method   *)
(* are one step (both run on the one connection of the process).           *)
(*                                                                         *)
(* A Guild is the record SQLiteStorage.get_guild builds: filter, volume,   *)
(* auto_leave, shuffle, loop (the id is the key).  `ver` is a history      *)
(* variable: the number of the write that produced the row.                *)
(***************************************************************************)
EXTENDS Integers, Sequences, FiniteSets, TLC

\* ------------------------------------------------------------------ bounds
\* Setter calls started / whitelist mutations started in one behaviour.
MaxWrites == 2
MaxWlOps == 3
\* Commands and track-end events arriving at the Music cog in one behaviour.
MaxInputs == 4

\* Two guilds (T1, T2) and two coroutines in flight at a time.
Tenants == {1, 2}
Tasks == {1, 2}
\* The guilds whose members send Music commands.
MusicGuilds == {1}

\* --------------------------------------------------------- program values
\* model.py:9-10: Filter.normal (the column default) and Filter.bassboost.
FilterNormal == 0
FilterBassboost == 1
FilterInputs == {FilterBassboost}
AutoLeaveInputs == {TRUE}

\* Column defaults of the guilds table (the schema is not part of src/).
DefaultVolume == 50
DefaultAutoLeave == FALSE
DefaultShuffle == FALSE
DefaultLoop == FALSE

\* Bounds of app_commands.Range[int, 0, 100] of the volume command.
VolumeMin == 0
VolumeMax == 100
\* A level above the range, as in the scenario "volume set to 150".
VolumeAbove == 150
VolumeInputs == {VolumeAbove}

NoRow ==
  [ok |-> FALSE, filter |-> 0, volume |-> 0, auto_leave |-> FALSE,
   shuffle |-> FALSE, loop |-> FALSE, ver |-> 0]

DefaultRow ==
  [ok |-> TRUE, filter |-> FilterNormal, volume |-> DefaultVolume,
   auto_leave |-> DefaultAutoLeave, shuffle |-> DefaultShuffle,
   loop |-> DefaultLoop, ver |-> 0]

\* A cache miss: TTLCache.get(key, None).
Absent == NoRow

VARIABLES
  rows,      \* guilds table as the process's connection sees it
  disk,      \* guilds table as committed (what survives a restart)
  wl,        \* whitelist table (sequence of guild_id rows), connection view
  wlDisk,    \* whitelist table as committed
  cache,     \* TimedCache: guild entries by guild id
  wlCache,   \* TimedCache: the entry under the key "whitelist"
  task,      \* the coroutines in flight: position and locals
  nWrites,   \* history: number of setter calls started
  wlHist,    \* history: completed whitelist mutations, in storage order
  players,   \* lavalink player_manager.players: the player of each guild
  voice,     \* the bot's registered voice client of each guild (guild.voice_client)
  vcDestroyed, \* ids of the voice clients whose _destroyed flag is set
  stayed,    \* history: the last queue-end of the guild's session decided to stay
  nIn,       \* history: number of commands and track-end events arrived
  now,       \* the clock, in seconds (interaction.created_at of an arriving command)
  buckets,   \* the cooldown mapping of each command: the Cooldown of each guild
  accepted   \* history: the commands that passed their cooldown check

vars ==
  <<rows, disk, wl, wlDisk, cache, wlCache, task, nWrites, wlHist,
    players, voice, vcDestroyed, stayed, nIn, now, buckets, accepted>>

\* The clock and the rate limiter of the Music commands.
GuardVars == <<now, buckets, accepted>>

MusicVars == <<players, voice, vcDestroyed, stayed, nIn>>

NoWl == [ok |-> FALSE, ids |-> {}]

\* A free coroutine slot.  op: the command, hook or Store call being run;
\* call / spc: the Store method in progress and its position; loc: the Guild
\* read from storage; rb: a boolean result; rw: the Whitelist read;
\* sv (history): the committed version of the row when get_guild was called,
\* or the version of the row a setter wrote.
\* Locals of the Music commands and hooks: mch: the voice channel of the
\* invoking member (0: none); free: free_queue_slots; pref / vref: the ids of
\* the player and of the voice client the coroutine holds a reference to;
\* err: the exception raised.  History: hadPlayer / hadVc: a player / a voice
\* client existed when the command arrived; conn: the command has called
\* channel.connect; drain: the command arrived after a decision to stay.
\* oid: the identity of the Guild / Whitelist object a caller of the Store holds.
Idle ==
  [op |-> "none", call |-> "none", pc |-> "idle", spc |-> "none", g |-> 0,
   arg |-> 0, flag |-> FALSE, loc |-> NoRow, rb |-> FALSE, rw |-> NoWl,
   sv |-> 0, mch |-> 0, free |-> 0, pref |-> 0, vref |-> 0, err |-> "none",
   hadPlayer |-> FALSE, hadVc |-> FALSE, conn |-> FALSE, drain |-> FALSE,
   oid |-> 0, val |-> << >>, out |-> << >>, turn |-> FALSE]

\* ------------------------------------------------------------- TimedCache
\* cache.py:18-19: the value of self.cache.get(...) is dropped; the method
\* returns None whatever the TTLCache holds.
TimedCache_get_guild(c, gid) == Absent

\* cache.py:21-22
TimedCache_set_guild(c, gid, guild) == [c EXCEPT ![gid] = guild]

\* cache.py:24-25, 15-16
TimedCache_invalidate_guild(c, gid) == [c EXCEPT ![gid] = Absent]

\* Variant: the lookup returns the entry the TTLCache holds.
TimedCache_get_whitelist_stored(w) == w

\* cache.py:27-28: as get_guild, returns None.
TimedCache_get_whitelist(w) == NoWl

\* cache.py:30-31
TimedCache_set_whitelist(w, whitelist) == whitelist

\* cache.py:33-34
TimedCache_invalidate_whitelist(w) == NoWl

\* ---------------------------------------------------------- SQLiteStorage
\* Variant: the insert replaces an existing row (no ON CONFLICT DO NOTHING).
SQLiteStorage_create_guild_replacing(rs, gid) == [rs EXCEPT ![gid] = DefaultRow]

\* storage.py:81-90: INSERT INTO guilds (id) ... ON CONFLICT (id) DO NOTHING
SQLiteStorage_create_guild(rs, gid) ==
  IF rs[gid].ok THEN rs ELSE [rs EXCEPT ![gid] = DefaultRow]

\* storage.py:61-79: SELECT ... WHERE id = ?; Guild(...)
SQLiteStorage_get_guild(rs, gid) == rs[gid]

\* INSERT INTO guilds (id, <field>) VALUES (...) ON CONFLICT (id) DO UPDATE SET
\* <field> = ...: the other columns keep their values (defaults on insert).
Upsert(rs, gid, field, val) ==
  LET base == IF rs[gid].ok THEN rs[gid] ELSE DefaultRow
  IN  [rs EXCEPT ![gid] = [base EXCEPT ![field] = val, !.ver = rs[gid].ver + 1]]

Clamp(volume) ==
  IF volume > VolumeMax THEN VolumeMax
  ELSE IF volume < VolumeMin THEN VolumeMin ELSE volume

\* Variant: the value is clamped to the declared range before it is bound.
SQLiteStorage_set_guild_volume_clamping(rs, gid, volume) ==
  Upsert(rs, gid, "volume", Clamp(volume))

\* storage.py:132-141
SQLiteStorage_set_guild_filter(rs, gid, filter) == Upsert(rs, gid, "filter", filter)

\* storage.py:143-152: the value is bound as given
SQLiteStorage_set_guild_volume(rs, gid, volume) == Upsert(rs, gid, "volume", volume)

\* storage.py:154-163
SQLiteStorage_set_guild_auto_leave(rs, gid, auto_leave) ==
  Upsert(rs, gid, "auto_leave", auto_leave)

\* storage.py:165-178: a new row is inserted with the defaults (nothing is
\* flipped); an existing row gets shuffle = NOT shuffle.
SQLiteStorage_switch_guild_shuffle(rs, gid) ==
  IF rs[gid].ok
    THEN Upsert(rs, gid, "shuffle", ~rs[gid].shuffle)
    ELSE [rs EXCEPT ![gid] = [DefaultRow EXCEPT !.ver = 1]]

\* storage.py:180-193
SQLiteStorage_switch_guild_loop(rs, gid) ==
  IF rs[gid].ok
    THEN Upsert(rs, gid, "loop", ~rs[gid].loop)
    ELSE [rs EXCEPT ![gid] = [DefaultRow EXCEPT !.ver = 1]]

InTable(tbl, gid) == \E i \in 1..Len(tbl) : tbl[i] = gid

\* Variant: the insert has no ON CONFLICT clause on a table without the
\* unique constraint.
SQLiteStorage_add_to_whitelist_always(tbl, gid) == Append(tbl, gid)

\* storage.py:204-215: INSERT ... ON CONFLICT (guild_id) DO NOTHING RETURNING TRUE
SQLiteStorage_add_to_whitelist(tbl, gid) ==
  IF InTable(tbl, gid) THEN tbl ELSE Append(tbl, gid)

\* storage.py:217-226: DELETE FROM whitelist WHERE guild_id = ? RETURNING TRUE
SQLiteStorage_remove_from_whitelist(tbl, gid) ==
  SelectSeq(tbl, LAMBDA x : x # gid)

\* storage.py:195-202
SQLiteStorage_get_whitelist(tbl) ==
  [ok |-> TRUE, ids |-> {tbl[i] : i \in 1..Len(tbl)}]

\* ---------------------------------------------------- players, voice clients
\* No player registered for the guild (player_manager.get returns None).
NoPlayer ==
  [ok |-> FALSE, id |-> 0, queue |-> << >>, current |-> 0, volume |-> 0,
   shuffle |-> FALSE, loop |-> FALSE, channel |-> 0, seed_al |-> FALSE,
   position |-> 0, paused |-> FALSE]

\* A lavalink DefaultPlayer as player_manager.create constructs it: empty
\* queue, no current track, volume 100, no shuffle, LOOP_NONE, not connected
\* (channel_id None).  seed_al is a history field: the auto_leave of the Guild
\* the session was seeded from.
NewPlayer(id) ==
  [ok |-> TRUE, id |-> id, queue |-> << >>, current |-> 0, volume |-> 100,
   shuffle |-> FALSE, loop |-> FALSE, channel |-> 0, seed_al |-> FALSE,
   position |-> 0, paused |-> FALSE]

\* guild.voice_client is None.
NoVoice == [ok |-> FALSE, channel |-> 0, id |-> 0]

\* ------------------------------------------------------------- rate limiter
\* music.py:69-72: cooldown(rate=2, per=2.0, key=guild_id)
CooldownRate == 2
CooldownPer == 2

\* The commands decorated with _cooldown() that the model runs through their
\* checks; every _cooldown() call builds a mapping of its own.
CooldownCommands == {"play", "leave"}

\* The guild has no Cooldown in the mapping of the command.
NoCooldown == [ok |-> FALSE, tokens |-> 0, window |-> 0, last |-> 0]

\* ------------------------------------------------------------------- Init
Init ==
  /\ rows = [g \in Tenants |-> NoRow]
  /\ disk = [g \in Tenants |-> NoRow]
  /\ wl = << >>
  /\ wlDisk = << >>
  /\ cache = [g \in Tenants |-> Absent]
  /\ wlCache = NoWl
  /\ task = [t \in Tasks |-> Idle]
  /\ nWrites = 0
  /\ wlHist = << >>
  /\ players = [g \in Tenants |-> NoPlayer]
  /\ voice = [g \in Tenants |-> NoVoice]
  /\ vcDestroyed = {}
  /\ stayed = [g \in Tenants |-> FALSE]
  /\ nIn = 0
  /\ now = 0
  /\ buckets = [c \in CooldownCommands |-> [g \in Tenants |-> NoCooldown]]
  /\ accepted = << >>

Free(t) == task[t].pc = "idle"

StoreVars == <<rows, disk, wl, wlDisk, cache, wlCache>>

\* ------------------------------------------------------------------ Store
\* store.py:81-85: the cache lookup and, on a miss, the call of create_guild.
\* r is the caller's frame; a hit returns the cached Guild without a read.
Store_get_guild_begin(r, gid) ==
  LET hit == TimedCache_get_guild(cache, gid)
  IN  IF hit.ok
        THEN [r EXCEPT !.call = "get_guild", !.spc = "hit", !.loc = hit,
                       !.sv = disk[gid].ver]
        ELSE [r EXCEPT !.call = "get_guild", !.spc = "ins", !.sv = disk[gid].ver]

\* store.py:81-88: get_guild has the Guild it returns (from the cache or from
\* storage) and resumes its caller.
Store_get_guild_has_result(t) ==
  task[t].call = "get_guild" /\ task[t].spc \in {"fill", "hit"}

\* store.py:86: self._cache.set_guild(guild), on the miss path only.
Store_get_guild_fill(t) ==
  IF task[t].spc = "fill"
    THEN TimedCache_set_guild(cache, task[t].g, task[t].loc)
    ELSE cache

\* A coroutine calls Store.get_guild.
Store_get_guild_call(t, gid) ==
  /\ Free(t)
  /\ task' = [task EXCEPT ![t] =
       Store_get_guild_begin([Idle EXCEPT !.op = "store", !.g = gid, !.pc = "call"], gid)]
  /\ UNCHANGED <<GuardVars, StoreVars, nWrites, wlHist, MusicVars>>

\* storage.py:81-90 (create_guild: INSERT ... DO NOTHING, commit)
Store_get_guild_insert(t) ==
  /\ task[t].call = "get_guild" /\ task[t].spc = "ins"
  /\ rows' = SQLiteStorage_create_guild(rows, task[t].g)
  /\ disk' = rows'
  /\ wlDisk' = wl
  /\ task' = [task EXCEPT ![t].spc = "sel"]
  /\ UNCHANGED <<GuardVars, wl, cache, wlCache, nWrites, wlHist, MusicVars>>

\* storage.py:92, 61-79 (create_guild returns await self.get_guild(guild_id))
Store_get_guild_select(t) ==
  /\ task[t].call = "get_guild" /\ task[t].spc = "sel"
  /\ task' = [task EXCEPT ![t].spc = "fill",
                          ![t].loc = SQLiteStorage_get_guild(rows, task[t].g)]
  /\ UNCHANGED <<GuardVars, StoreVars, nWrites, wlHist, MusicVars>>

\* store.py:86-88: self._cache.set_guild(guild); return dataclasses.replace(guild)
Store_get_guild_return(t) ==
  /\ task[t].op = "store" /\ Store_get_guild_has_result(t)
  /\ cache' = Store_get_guild_fill(t)
  /\ task' = [task EXCEPT ![t] = Idle]
  /\ UNCHANGED <<GuardVars, rows, disk, wl, wlDisk, wlCache, nWrites, wlHist, MusicVars>>

SetterCall(t, gid, name, arg, flag) ==
  /\ Free(t)
  /\ nWrites < MaxWrites
  /\ nWrites' = nWrites + 1
  /\ task' = [task EXCEPT ![t] =
       [Idle EXCEPT !.op = "store", !.call = name, !.g = gid, !.pc = "call",
                    !.spc = "wr", !.arg = arg, !.flag = flag]]
  /\ UNCHANGED <<GuardVars, StoreVars, wlHist, MusicVars>>

\* store.py:110-111
Store_set_guild_filter_call(t, gid, filter) ==
  SetterCall(t, gid, "set_guild_filter", filter, FALSE)

\* store.py:115-116
Store_set_guild_volume_call(t, gid, volume) ==
  SetterCall(t, gid, "set_guild_volume", volume, FALSE)

\* store.py:120-121
Store_set_guild_auto_leave_call(t, gid, auto_leave) ==
  SetterCall(t, gid, "set_guild_auto_leave", 0, auto_leave)

\* store.py:125-126
Store_switch_guild_shuffle_call(t, gid) ==
  SetterCall(t, gid, "switch_guild_shuffle", 0, FALSE)

\* store.py:132-133
Store_switch_guild_loop_call(t, gid) ==
  SetterCall(t, gid, "switch_guild_loop", 0, FALSE)

\* History, kept for direct callers of the Store setters: the version of the
\* row the statement of the method produced.
WrittenVersion(t, rs) ==
  IF task[t].op = "store" THEN rs[task[t].g].ver ELSE task[t].sv

\* storage.py:44-49, 132-163: execute_auto_closable_commited: the upsert and
\* the commit of the connection (which commits every pending statement).
Storage_write_commited(t) ==
  /\ task[t].spc = "wr"
  /\ task[t].call \in {"set_guild_filter", "set_guild_volume", "set_guild_auto_leave"}
  /\ rows' =
       CASE task[t].call = "set_guild_filter" ->
              SQLiteStorage_set_guild_filter(rows, task[t].g, task[t].arg)
         [] task[t].call = "set_guild_volume" ->
              SQLiteStorage_set_guild_volume(rows, task[t].g, task[t].arg)
         [] task[t].call = "set_guild_auto_leave" ->
              SQLiteStorage_set_guild_auto_leave(rows, task[t].g, task[t].flag)
  /\ disk' = rows'
  /\ wlDisk' = wl
  /\ task' = [task EXCEPT ![t].spc = "inv", ![t].sv = WrittenVersion(t, rows')]
  /\ UNCHANGED <<GuardVars, wl, cache, wlCache, nWrites, wlHist, MusicVars>>

\* storage.py:165-193: self._connection.execute(...) with RETURNING; no commit.
Storage_switch(t) ==
  /\ task[t].spc = "wr"
  /\ task[t].call \in {"switch_guild_shuffle", "switch_guild_loop"}
  /\ rows' =
       IF task[t].call = "switch_guild_shuffle"
         THEN SQLiteStorage_switch_guild_shuffle(rows, task[t].g)
         ELSE SQLiteStorage_switch_guild_loop(rows, task[t].g)
  /\ task' = [task EXCEPT ![t].spc = "inv", ![t].sv = WrittenVersion(t, rows'),
                          ![t].rb = IF task[t].call = "switch_guild_shuffle"
                                      THEN rows'[task[t].g].shuffle
                                      ELSE rows'[task[t].g].loop]
  /\ UNCHANGED <<GuardVars, disk, wl, wlDisk, cache, wlCache, nWrites, wlHist, MusicVars>>

\* store.py:113, 118, 123, 128-130, 135-137: invalidate_guild, return
Store_setter_return(t) ==
  /\ task[t].op = "store" /\ task[t].spc = "inv"
  /\ task[t].call \in {"set_guild_filter", "set_guild_volume", "set_guild_auto_leave",
                       "switch_guild_shuffle", "switch_guild_loop"}
  /\ cache' = TimedCache_invalidate_guild(cache, task[t].g)
  /\ task' = [task EXCEPT ![t] = Idle]
  /\ UNCHANGED <<GuardVars, rows, disk, wl, wlDisk, wlCache, nWrites, wlHist, MusicVars>>

\* TTLCache: an entry older than the ttl, or evicted at capacity, is gone.
TTLCache_expire(gid) ==
  /\ cache[gid].ok
  /\ cache' = [cache EXCEPT ![gid] = Absent]
  /\ UNCHANGED <<GuardVars, rows, disk, wl, wlDisk, wlCache, task, nWrites, wlHist, MusicVars>>

\* -------------------------------------------------------- Store: whitelist
Count(tbl, gid) == Cardinality({i \in 1..Len(tbl) : tbl[i] = gid})

WhitelistCall(t, gid, name) ==
  /\ Free(t)
  /\ Len(wlHist) < MaxWlOps
  /\ task' = [task EXCEPT ![t] =
       [Idle EXCEPT !.op = "store", !.call = name, !.g = gid, !.pc = "call",
                    !.spc = "wr"]]
  /\ UNCHANGED <<GuardVars, StoreVars, nWrites, wlHist, MusicVars>>

\* store.py:148-149
Store_add_to_whitelist_call(t, gid) == WhitelistCall(t, gid, "add_to_whitelist")

\* store.py:155-156
Store_remove_from_whitelist_call(t, gid) ==
  WhitelistCall(t, gid, "remove_from_whitelist")

\* storage.py:27-36, 204-226: execute_commited: the statement, the fetchone of
\* its RETURNING row (a row comes back iff the statement changed the table),
\* and the commit when the context manager exits.
Storage_whitelist_write(t) ==
  /\ task[t].spc = "wr"
  /\ task[t].call \in {"add_to_whitelist", "remove_from_whitelist"}
  /\ wl' = IF task[t].call = "add_to_whitelist"
             THEN SQLiteStorage_add_to_whitelist(wl, task[t].g)
             ELSE SQLiteStorage_remove_from_whitelist(wl, task[t].g)
  /\ wlDisk' = wl'
  /\ disk' = rows
  /\ task' = [task EXCEPT ![t].spc = "inv", ![t].rb = (Len(wl') # Len(wl))]
  /\ wlHist' = Append(wlHist,
       [op |-> task[t].call, id |-> task[t].g, res |-> (Len(wl') # Len(wl)),
        before |-> wl, after |-> wl'])
  /\ UNCHANGED <<GuardVars, rows, cache, wlCache, nWrites, MusicVars>>

\* store.py:151-153, 158-160: invalidate_whitelist, return
Store_whitelist_return(t) ==
  /\ task[t].op = "store" /\ task[t].spc = "inv"
  /\ task[t].call \in {"add_to_whitelist", "remove_from_whitelist"}
  /\ wlCache' = TimedCache_invalidate_whitelist(wlCache)
  /\ task' = [task EXCEPT ![t] = Idle]
  /\ UNCHANGED <<GuardVars, rows, disk, wl, wlDisk, cache, nWrites, wlHist, MusicVars>>

\* store.py:139-143: the cache lookup and, on a miss, the call of
\* storage.get_whitelist.  sv (history): the number of whitelist mutations
\* storage had executed when get_whitelist was called.
Store_get_whitelist_begin(r) ==
  LET hit == TimedCache_get_whitelist(wlCache)
  IN  IF hit.ok
        THEN [r EXCEPT !.call = "get_whitelist", !.spc = "hit", !.rw = hit,
                       !.sv = Len(wlHist)]
        ELSE [r EXCEPT !.call = "get_whitelist", !.spc = "sel", !.sv = Len(wlHist)]

\* store.py:139-146: get_whitelist has the Whitelist it returns.
Store_get_whitelist_has_result(t) ==
  task[t].call = "get_whitelist" /\ task[t].spc \in {"fill", "hit"}

\* store.py:144: self._cache.set_whitelist(whitelist), on the miss path only.
Store_get_whitelist_fill(t) ==
  IF task[t].spc = "fill"
    THEN TimedCache_set_whitelist(wlCache, task[t].rw)
    ELSE wlCache

\* store.py:139-143
Store_get_whitelist_call(t) ==
  /\ Free(t)
  /\ task' = [task EXCEPT ![t] =
       Store_get_whitelist_begin([Idle EXCEPT !.op = "store", !.pc = "call"])]
  /\ UNCHANGED <<GuardVars, StoreVars, nWrites, wlHist, MusicVars>>

\* storage.py:195-202
Store_get_whitelist_select(t) ==
  /\ task[t].call = "get_whitelist" /\ task[t].spc = "sel"
  /\ task' = [task EXCEPT ![t].spc = "fill",
                          ![t].rw = SQLiteStorage_get_whitelist(wl)]
  /\ UNCHANGED <<GuardVars, StoreVars, nWrites, wlHist, MusicVars>>

\* store.py:144-146: set_whitelist, return Whitelist(copy(whitelist.guild_ids))
Store_get_whitelist_return(t) ==
  /\ task[t].op = "store" /\ Store_get_whitelist_has_result(t)
  /\ wlCache' = Store_get_whitelist_fill(t)
  /\ task' = [task EXCEPT ![t] = Idle]
  /\ UNCHANGED <<GuardVars, rows, disk, wl, wlDisk, cache, nWrites, wlHist, MusicVars>>

\* TTLCache: the whitelist entry expires or is evicted.
TTLCache_expire_whitelist ==
  /\ wlCache.ok
  /\ wlCache' = NoWl
  /\ UNCHANGED <<GuardVars, rows, disk, wl, wlDisk, cache, task, nWrites, wlHist, MusicVars>>

NextWhitelist ==
  \/ \E t \in Tasks, gid \in Tenants : Store_add_to_whitelist_call(t, gid)
  \/ \E t \in Tasks, gid \in Tenants : Store_remove_from_whitelist_call(t, gid)
  \/ \E t \in Tasks : Storage_whitelist_write(t)
  \/ \E t \in Tasks : Store_whitelist_return(t)
  \/ \E t \in Tasks : Store_get_whitelist_call(t)
  \/ \E t \in Tasks : Store_get_whitelist_select(t)
  \/ \E t \in Tasks : Store_get_whitelist_return(t)
  \/ TTLCache_expire_whitelist

\* Coroutines calling the whitelist methods of the Store.
SpecWhitelist == Init /\ [][NextWhitelist]_vars

NextStore ==
  \/ \E t \in Tasks, gid \in Tenants : Store_get_guild_call(t, gid)
  \/ \E t \in Tasks : Store_get_guild_insert(t)
  \/ \E t \in Tasks : Store_get_guild_select(t)
  \/ \E t \in Tasks : Store_get_guild_return(t)
  \/ \E t \in Tasks, gid \in Tenants, f \in FilterInputs :
       Store_set_guild_filter_call(t, gid, f)
  \/ \E t \in Tasks, gid \in Tenants, v \in VolumeInputs :
       Store_set_guild_volume_call(t, gid, v)
  \/ \E t \in Tasks, gid \in Tenants, b \in AutoLeaveInputs :
       Store_set_guild_auto_leave_call(t, gid, b)
  \/ \E t \in Tasks, gid \in Tenants : Store_switch_guild_shuffle_call(t, gid)
  \/ \E t \in Tasks, gid \in Tenants : Store_switch_guild_loop_call(t, gid)
  \/ \E t \in Tasks : Storage_write_commited(t)
  \/ \E t \in Tasks : Storage_switch(t)
  \/ \E t \in Tasks : Store_setter_return(t)
  \/ \E gid \in Tenants : TTLCache_expire(gid)

\* Coroutines calling the guild methods of the Store.
SpecStore == Init /\ [][NextStore]_vars

\* ================================================================ Music cog
\* music.py:46
MAX_QUEUE_SIZE == 400

\* The voice channel of the member who invokes a command (0: none).
MemberChannels == {0, 1, 2}

\* Number of tracks a search retrieves (0: nothing found, or the search failed).
RetrievedInputs == {0, 1, MAX_QUEUE_SIZE}

\* Object identities of players and voice clients.  An id is free again once
\* neither the registry nor a coroutine refers to the object.
IdPool == 1..(Cardinality(Tenants) + Cardinality(Tasks) + 1)

LeastFree(used) ==
  CHOOSE i \in IdPool : i \notin used /\ \A j \in IdPool : j \notin used => i <= j

FreshPlayerId ==
  LeastFree({players[g].id : g \in Tenants} \cup {task[t].pref : t \in Tasks})

FreshVoiceId ==
  LeastFree({voice[g].id : g \in Tenants} \cup {task[t].vref : t \in Tasks})

\* The coroutine's player reference is the registered player of its guild.
Live(t) == players[task[t].g].ok /\ players[task[t].g].id = task[t].pref

\* lavalink PlayerManager.create (music.py:234-238, 171): the registered
\* player of the guild, registering a new one when there is none.
PlayerManager_create(ps, gid) ==
  IF ps[gid].ok THEN ps ELSE [ps EXCEPT ![gid] = NewPlayer(FreshPlayerId)]

\* Variant: destroy leaves the player registered.
PlayerManager_destroy_keeping(ps, gid) == ps

\* lavalink PlayerManager.destroy (music.py:141): pops the guild's player.
PlayerManager_destroy(ps, gid) == [ps EXCEPT ![gid] = NoPlayer]

\* Variant: the player always reports a playing track.
DefaultPlayer_is_playing_always(p) == TRUE

\* lavalink DefaultPlayer.is_playing (music.py:587, 329): connected to a
\* channel and a current track.
DefaultPlayer_is_playing(p) == p.channel # 0 /\ p.current # 0

\* player.queue.  A track is named by its position in the search result it
\* came from, and the list is kept as runs of consecutive tracks:
\* <<[lo |-> 1, hi |-> 3], [lo |-> 1, hi |-> 1]>> is the queue 1, 2, 3, 1.
RunLen(r) == r.hi - r.lo + 1

RECURSIVE QueueLen(_)
QueueLen(q) == IF q = << >> THEN 0 ELSE RunLen(Head(q)) + QueueLen(Tail(q))

\* The track at position i (1-indexed).
RECURSIVE QueueAt(_, _)
QueueAt(q, i) ==
  IF i <= RunLen(Head(q)) THEN Head(q).lo + i - 1
  ELSE QueueAt(Tail(q), i - RunLen(Head(q)))

\* The queue without the track at position i.
RECURSIVE QueueRemoveAt(_, _)
QueueRemoveAt(q, i) ==
  LET h == Head(q)
      before == IF i > 1 THEN <<[lo |-> h.lo, hi |-> h.lo + i - 2]>> ELSE << >>
      after == IF i < RunLen(h) THEN <<[lo |-> h.lo + i, hi |-> h.hi]>> ELSE << >>
  IN  IF i <= RunLen(h) THEN before \o after \o Tail(q)
      ELSE <<h>> \o QueueRemoveAt(Tail(q), i - RunLen(h))

\* The queue with one track added at the tail.
QueueAdd(q, track) == Append(q, [lo |-> track, hi |-> track])

\* The queue DefaultPlayer.play() takes the next track from: with LOOP_QUEUE
\* the finished track goes back to the tail first.
DefaultPlayer_play_queue(p) ==
  IF p.loop /\ p.current # 0 THEN QueueAdd(p.queue, p.current) ELSE p.queue

\* The positions play() may pop: a random one under shuffle, else the head.
DefaultPlayer_play_indices(p) ==
  IF p.shuffle THEN 1..QueueLen(DefaultPlayer_play_queue(p))
  ELSE IF DefaultPlayer_play_queue(p) = << >> THEN {} ELSE {1}

\* lavalink DefaultPlayer.play() without a track (music.py:588, 437): the
\* track at position i becomes the current one.
DefaultPlayer_play(p, i) ==
  LET q == DefaultPlayer_play_queue(p)
  IN  [p EXCEPT !.current = QueueAt(q, i), !.queue = QueueRemoveAt(q, i),
                !.position = 0]

\* lavalink DefaultPlayer.play() with nothing to play: stops; the QueueEndEvent
\* is dispatched to the hooks.
DefaultPlayer_play_nothing(p) ==
  [p EXCEPT !.current = 0, !.queue = DefaultPlayer_play_queue(p), !.position = 0]

\* music.py:561-564: the first n_enqueued_tracks retrieved tracks are added at
\* the tail; a track is named by its position in the result.
Enqueue(q, free, n) ==
  LET n_enqueued_tracks == IF free < n THEN free ELSE n
  IN  IF n_enqueued_tracks <= 0 THEN q
      ELSE Append(q, [lo |-> 1, hi |-> n_enqueued_tracks])

\* The frame of a command that ended with exception e.
Failed(r, e) ==
  [Idle EXCEPT !.op = r.op, !.g = r.g, !.pc = "error", !.err = e,
               !.hadPlayer = r.hadPlayer, !.hadVc = r.hadVc, !.conn = r.conn]

\* The exceptions _ensure_player_is_ready ends with (music.py:245-271), the
\* last two escaping from channel.connect.
GuardFailures ==
  {"MemberNotInVoiceChannel", "BotNotInVoiceChannel", "VoiceChannelIsFull",
   "DifferentVoiceChannels", "FailedToPreparePlayer", "ClientException",
   "ConnectFailed"}

\* Variant: the guard does not see the registered voice client.
BotVoiceClient_none(gid) == NoVoice

\* music.py:243: bot_voice_client = interaction.guild.voice_client
BotVoiceClient(gid) == voice[gid]

\* music.py:498-508: the body of play up to its first await: the free slots
\* are computed from the queue as it is now.
Music_play_body(r, ps) ==
  LET b == [Idle EXCEPT !.op = "play", !.g = r.g, !.conn = r.conn, !.drain = r.drain,
                        !.pref = ps[r.g].id]
  IN  IF ~ps[r.g].ok
        THEN Failed(r, "AttributeError")
        ELSE IF MAX_QUEUE_SIZE - QueueLen(ps[r.g].queue) = 0
          THEN [b EXCEPT !.pc = "reply", !.err = "QueueFull"]
          ELSE [b EXCEPT !.pc = "search",
                         !.free = MAX_QUEUE_SIZE - QueueLen(ps[r.g].queue)]

\* music.py:228-275, 498-508: _ensure_player_is_ready of a play command up to
\* its first await or its exception; when the bot is already in the member's
\* channel the check passes and the body of play runs up to its first await.
Music_ensure_player_is_ready_play(t, gid, mch, full) ==
  LET ps == PlayerManager_create(players, gid)
      bvc == BotVoiceClient(gid)
      r == [Idle EXCEPT !.op = "play", !.g = gid, !.mch = mch, !.pc = "guard",
                        !.pref = ps[gid].id, !.hadPlayer = players[gid].ok,
                        !.hadVc = voice[gid].ok, !.drain = stayed[gid]]
  IN  /\ players' = ps
      /\ task' = [task EXCEPT ![t] =
           IF mch = 0 THEN Failed(r, "MemberNotInVoiceChannel")
           ELSE IF ~bvc.ok
             THEN IF full THEN Failed(r, "VoiceChannelIsFull")
                  ELSE Store_get_guild_begin(r, gid)
             ELSE IF mch # bvc.channel
               THEN Failed(r, "DifferentVoiceChannels")
               ELSE Music_play_body(r, ps)]

\* A play command arrives (its earlier checks have passed) and
\* _ensure_player_is_ready runs.
Music_play(t, gid, mch, full) ==
  /\ Free(t)
  /\ nIn < MaxInputs
  /\ nIn' = nIn + 1
  /\ Music_ensure_player_is_ready_play(t, gid, mch, full)
  /\ UNCHANGED <<GuardVars, StoreVars, nWrites, wlHist, voice, vcDestroyed, stayed>>

\* music.py:257-261: store.get_guild raises inside the check.
Music_guard_get_guild_failed(t) ==
  /\ task[t].op \in {"play"} /\ task[t].pc = "guard"
  /\ task[t].call = "get_guild" /\ task[t].spc \in {"ins", "sel"}
  /\ task' = [task EXCEPT ![t] = Failed(task[t], "FailedToPreparePlayer")]
  /\ UNCHANGED <<GuardVars, StoreVars, nWrites, wlHist, MusicVars>>

\* music.py:258-259, store.py:86-88: get_guild returns guild_db; the check
\* awaits player.set_volume(guild_db.volume).
Music_guard_set_volume(t) ==
  /\ task[t].op = "play" /\ task[t].pc = "guard"
  /\ Store_get_guild_has_result(t)
  /\ cache' = Store_get_guild_fill(t)
  /\ task' = [task EXCEPT ![t].call = "none", ![t].spc = "none", ![t].pc = "vol",
                          ![t].sv = 0]
  /\ UNCHANGED <<GuardVars, rows, disk, wl, wlDisk, wlCache, nWrites, wlHist, MusicVars>>

\* music.py:259-261: player.set_volume raises.
Music_guard_set_volume_failed(t) ==
  /\ task[t].op = "play" /\ task[t].pc = "vol"
  /\ task' = [task EXCEPT ![t] = Failed(task[t], "FailedToPreparePlayer")]
  /\ UNCHANGED <<GuardVars, StoreVars, nWrites, wlHist, MusicVars>>

\* music.py:259-265, 162-175: set_volume returns (lavalink keeps the volume
\* within 0..1000), shuffle and loop mode are set from guild_db, and
\* channel.connect is called: it raises ClientException when the guild has a
\* voice client, else it registers a new _LavalinkVoiceClient whose connect
\* makes sure the player exists and awaits change_voice_state.
Music_guard_connect(t) ==
  /\ task[t].op = "play" /\ task[t].pc = "vol"
  /\ LET g == task[t].g
         v == task[t].loc.volume
         seeded ==
           IF Live(t)
             THEN [players EXCEPT ![g] =
                    [@ EXCEPT !.volume = IF v > 1000 THEN 1000 ELSE IF v < 0 THEN 0 ELSE v,
                              !.shuffle = task[t].loc.shuffle,
                              !.loop = task[t].loc.loop,
                              !.seed_al = task[t].loc.auto_leave]]
             ELSE players
     IN  IF voice[g].ok
           THEN /\ players' = seeded
                /\ task' = [task EXCEPT ![t] =
                     Failed([task[t] EXCEPT !.conn = TRUE], "ClientException")]
                /\ UNCHANGED <<voice, vcDestroyed>>
           ELSE /\ players' = PlayerManager_create(seeded, g)
                /\ voice' = [voice EXCEPT ![g] =
                     [ok |-> TRUE, channel |-> task[t].mch, id |-> FreshVoiceId]]
                /\ vcDestroyed' = vcDestroyed \ {FreshVoiceId}
                /\ task' = [task EXCEPT ![t].pc = "conn", ![t].conn = TRUE,
                                        ![t].loc = NoRow, ![t].mch = 0]
  /\ UNCHANGED <<GuardVars, StoreVars, nWrites, wlHist, stayed, nIn>>

\* music.py:265: connect raises (the gateway request fails); its voice client
\* stays registered.
Music_guard_connect_failed(t) ==
  /\ task[t].op = "play" /\ task[t].pc = "conn"
  /\ task' = [task EXCEPT ![t] = Failed(task[t], "ConnectFailed")]
  /\ UNCHANGED <<GuardVars, StoreVars, nWrites, wlHist, MusicVars>>

\* music.py:265-267, 498-508: connect returns, the check passes and the body
\* of play runs up to its first await.
Music_guard_connected(t) ==
  /\ task[t].op = "play" /\ task[t].pc = "conn"
  /\ task' = [task EXCEPT ![t] = Music_play_body(task[t], players)]
  /\ UNCHANGED <<GuardVars, StoreVars, nWrites, wlHist, MusicVars>>

\* music.py:145-156: the gateway's VOICE_STATE_UPDATE for the bot reaches the
\* voice client, which hands it to lavalink: the player is connected.
LavalinkVoiceClient_on_voice_state_update(gid) ==
  /\ voice[gid].ok /\ players[gid].ok
  /\ players[gid].channel # voice[gid].channel
  /\ players' = [players EXCEPT ![gid].channel = voice[gid].channel]
  /\ UNCHANGED <<GuardVars, StoreVars, task, nWrites, wlHist, voice, vcDestroyed, stayed, nIn>>

\* music.py:508-585: defer and get_tracks have returned n tracks; the first
\* min(free_queue_slots, n) are added and the reply is sent.  arg keeps
\* n_retrieved_tracks.
Music_play_enqueue(t, n) ==
  /\ task[t].op = "play" /\ task[t].pc = "search"
  /\ IF n = 0
       THEN /\ task' = [task EXCEPT ![t].pc = "reply"]
            /\ UNCHANGED players
       ELSE /\ task' = [task EXCEPT ![t].pc = "sent", ![t].free = 0, ![t].arg = n]
            /\ players' =
                 IF Live(t)
                   THEN [players EXCEPT ![task[t].g].queue =
                          Enqueue(@, task[t].free, n)]
                   ELSE players
  /\ UNCHANGED <<GuardVars, StoreVars, nWrites, wlHist, voice, vcDestroyed, stayed, nIn>>

\* music.py:372-376, 445-447: on_queue_end -> _decide_bot_presence: the guild
\* is known and store.get_guild is called.
Music_on_queue_end(gid) ==
  Store_get_guild_begin([Idle EXCEPT !.op = "on_queue_end", !.g = gid, !.pc = "decide"], gid)

\* music.py:585-588: the reply is sent; if not player.is_playing, player.play()
\* starts the next queued track (with an empty queue it dispatches the
\* QueueEndEvent, whose hook runs in this coroutine).
Music_play_start(t) ==
  /\ task[t].op = "play" /\ task[t].pc = "sent"
  /\ LET g == task[t].g
         p == players[g]
     IN  IF ~Live(t) \/ DefaultPlayer_is_playing(p)
           THEN /\ task' = [task EXCEPT ![t] = Idle]
                /\ UNCHANGED players
           ELSE IF DefaultPlayer_play_indices(p) = {}
             THEN /\ players' = [players EXCEPT ![g] = DefaultPlayer_play_nothing(p)]
                  /\ task' = [task EXCEPT ![t] = Music_on_queue_end(g)]
             ELSE /\ \E i \in DefaultPlayer_play_indices(p) :
                       players' = [players EXCEPT ![g] = DefaultPlayer_play(p, i)]
                  /\ task' = [task EXCEPT ![t].pc = "playing"]
  /\ UNCHANGED <<GuardVars, StoreVars, nWrites, wlHist, voice, vcDestroyed, stayed, nIn>>

\* music.py:588: player.play() returns; the command is done.
Music_play_done(t) ==
  /\ task[t].op = "play" /\ task[t].pc = "playing"
  /\ task' = [task EXCEPT ![t] = Idle]
  /\ UNCHANGED <<GuardVars, StoreVars, nWrites, wlHist, MusicVars>>

\* music.py:502-506, 520-528, 530-534: the last message of a command that
\* ends without enqueueing is sent.
Music_reply(t) ==
  /\ task[t].pc = "reply"
  /\ task' = [task EXCEPT ![t] = Idle]
  /\ UNCHANGED <<GuardVars, StoreVars, nWrites, wlHist, MusicVars>>

\* music.py:1114-1217: the error handler answers the command; it touches
\* neither the player nor the voice client.
Music_cog_app_command_error(t) ==
  /\ task[t].pc = "error"
  /\ task' = [task EXCEPT ![t] = Idle]
  /\ UNCHANGED <<GuardVars, StoreVars, nWrites, wlHist, MusicVars>>

\* The current track ends and lavalink's player calls play(): the next queued
\* track starts.
Lavalink_track_end(gid) ==
  /\ nIn < MaxInputs
  /\ players[gid].ok /\ players[gid].current # 0
  /\ \E i \in DefaultPlayer_play_indices(players[gid]) :
       players' = [players EXCEPT ![gid] = DefaultPlayer_play(players[gid], i)]
  /\ nIn' = nIn + 1
  /\ UNCHANGED <<GuardVars, StoreVars, task, nWrites, wlHist, voice, vcDestroyed, stayed>>

\* music.py:445-447: the current track ends with nothing left to play: the
\* player stops and the QueueEndEvent reaches on_queue_end.
Lavalink_queue_end(t, gid) ==
  /\ nIn < MaxInputs
  /\ Free(t)
  /\ players[gid].ok /\ players[gid].current # 0
  /\ DefaultPlayer_play_indices(players[gid]) = {}
  /\ players' = [players EXCEPT ![gid] = DefaultPlayer_play_nothing(players[gid])]
  /\ task' = [task EXCEPT ![t] = Music_on_queue_end(gid)]
  /\ nIn' = nIn + 1
  /\ UNCHANGED <<GuardVars, StoreVars, nWrites, wlHist, voice, vcDestroyed, stayed>>

\* Variant: the decision uses the auto_leave the session was seeded with.
AutoLeave_seeded(t) == players[task[t].g].seed_al

\* music.py:377: (await self._bot.store.get_guild(guild_id)).auto_leave
AutoLeave(t) == task[t].loc.auto_leave

\* music.py:177-184: disconnect(force=True) up to its await: the player is
\* looked up and change_voice_state(channel=None) is awaited.
LavalinkVoiceClient_disconnect(r) ==
  [Idle EXCEPT !.op = r.op, !.g = r.g, !.pc = "disc", !.vref = voice[r.g].id,
               !.pref = IF players[r.g].ok THEN players[r.g].id ELSE 0]

\* music.py:377-378: get_guild returns; with auto_leave the guild's voice
\* client is disconnected (AttributeError when there is none), else nothing
\* is done.
Music_decide_bot_presence(t) ==
  /\ task[t].op \in {"on_queue_end", "on_track_load_failed"} /\ task[t].pc = "decide"
  /\ Store_get_guild_has_result(t)
  /\ cache' = Store_get_guild_fill(t)
  /\ LET g == task[t].g
     IN  IF AutoLeave(t)
           THEN /\ task' = [task EXCEPT ![t] =
                     IF voice[g].ok THEN LavalinkVoiceClient_disconnect(task[t]) ELSE Idle]
                /\ UNCHANGED stayed
           ELSE /\ task' = [task EXCEPT ![t] = Idle]
                /\ stayed' = [stayed EXCEPT ![g] = voice[g].ok /\ players[g].ok]
  /\ UNCHANGED <<GuardVars, rows, disk, wl, wlDisk, wlCache, nWrites, wlHist,
                 players, voice, vcDestroyed, nIn>>

\* Variant: _destroy does not look at the flag.
LavalinkVoiceClient_destroyed_never(v) == FALSE

\* music.py:136: self._destroyed of the voice client with identity v.
LavalinkVoiceClient_destroyed(v) == v \in vcDestroyed

\* music.py:184-186, 133-143: change_voice_state has returned:
\* player.channel_id = None (AttributeError when the lookup gave None), then
\* _destroy: cleanup() unregisters the guild's voice client and, unless this
\* client was destroyed before, the guild's player is destroyed.
LavalinkVoiceClient_disconnect_finish(t) ==
  /\ task[t].pc = "disc"
  /\ LET g == task[t].g
         ps == IF Live(t) THEN [players EXCEPT ![g].channel = 0] ELSE players
     IN  IF task[t].pref = 0
           THEN /\ task' = [task EXCEPT ![t] =
                     IF task[t].op = "on_queue_end" THEN Idle
                     ELSE Failed(task[t], "AttributeError")]
                /\ UNCHANGED <<players, voice, vcDestroyed, stayed>>
           ELSE /\ voice' = [voice EXCEPT ![g] = NoVoice]
                /\ stayed' = [stayed EXCEPT ![g] = FALSE]
                /\ IF LavalinkVoiceClient_destroyed(task[t].vref)
                     THEN /\ players' = ps
                          /\ UNCHANGED vcDestroyed
                     ELSE /\ players' = PlayerManager_destroy(ps, g)
                          /\ vcDestroyed' = vcDestroyed \cup {task[t].vref}
                /\ task' = [task EXCEPT ![t].pc = "left"]
  /\ UNCHANGED <<GuardVars, StoreVars, nWrites, wlHist, nIn>>

\* music.py:141, 186, 941-945, 1066-1067: the node has destroyed its player;
\* a hook is done, a command sends its last message.
Music_disconnected(t) ==
  /\ task[t].pc = "left"
  /\ task' = [task EXCEPT ![t] = Idle]
  /\ UNCHANGED <<GuardVars, StoreVars, nWrites, wlHist, MusicVars>>

\* music.py:1039-1043, store.py:120-121: presence stay calls
\* store.set_guild_auto_leave(guild_id, auto_leave=False).
Music_presence_stay(t, gid) ==
  /\ Free(t)
  /\ nIn < MaxInputs
  /\ nIn' = nIn + 1
  /\ task' = [task EXCEPT ![t] =
       [Idle EXCEPT !.op = "presence_stay", !.g = gid, !.pc = "set",
                    !.call = "set_guild_auto_leave", !.spc = "wr", !.flag = FALSE]]
  /\ UNCHANGED <<GuardVars, StoreVars, nWrites, wlHist, players, voice, vcDestroyed, stayed>>

\* store.py:123, music.py:1045-1046: the cache entry is invalidated, the setter
\* returns and the reply is sent.
Music_presence_stay_done(t) ==
  /\ task[t].op = "presence_stay" /\ task[t].spc = "inv"
  /\ cache' = TimedCache_invalidate_guild(cache, task[t].g)
  /\ task' = [task EXCEPT ![t] = Idle]
  /\ UNCHANGED <<GuardVars, rows, disk, wl, wlDisk, wlCache, nWrites, wlHist, MusicVars>>

\* music.py:1056-1060, store.py:120-121: presence leave calls
\* store.set_guild_auto_leave(guild_id, auto_leave=True).
Music_presence_leave(t, gid) ==
  /\ Free(t)
  /\ nIn < MaxInputs
  /\ nIn' = nIn + 1
  /\ task' = [task EXCEPT ![t] =
       [Idle EXCEPT !.op = "presence_leave", !.g = gid, !.pc = "set",
                    !.call = "set_guild_auto_leave", !.spc = "wr", !.flag = TRUE]]
  /\ UNCHANGED <<GuardVars, StoreVars, nWrites, wlHist, players, voice, vcDestroyed, stayed>>

\* store.py:123, music.py:1062-1067: the setter returns; a voice client of the
\* guild is disconnected at once, else the reply is sent.
Music_presence_leave_disconnect(t) ==
  /\ task[t].op = "presence_leave" /\ task[t].spc = "inv"
  /\ cache' = TimedCache_invalidate_guild(cache, task[t].g)
  /\ task' = [task EXCEPT ![t] =
       IF voice[task[t].g].ok THEN LavalinkVoiceClient_disconnect(task[t]) ELSE Idle]
  /\ UNCHANGED <<GuardVars, rows, disk, wl, wlDisk, wlCache, nWrites, wlHist, MusicVars>>

\* Variant: without a voice client the check prepares a session for any command.
Music_guard_not_play_preparing(r) == Store_get_guild_begin(r, r.g)

\* music.py:249-251: no voice client and the command is not play.
Music_guard_not_play(r) == Failed(r, "BotNotInVoiceChannel")

\* Variant: the queue keeps its tracks.
Queue_clear_keeping(q) == q

\* music.py:395: player.queue.clear()
Queue_clear(q) == << >>

\* music.py:228-275, 935-939, 393-397: _ensure_player_is_ready of a leave
\* command (a command other than play never connects), then the body up to its
\* first await: the queue is cleared and player.stop() is awaited.
Music_ensure_player_is_ready_leave(t, gid, mch) ==
  LET ps == PlayerManager_create(players, gid)
      bvc == BotVoiceClient(gid)
      r == [Idle EXCEPT !.op = "leave", !.g = gid, !.mch = mch, !.pc = "guard",
                        !.pref = ps[gid].id, !.hadPlayer = players[gid].ok,
                        !.hadVc = voice[gid].ok]
  IN  IF mch # 0 /\ bvc.ok /\ mch = bvc.channel
        THEN /\ players' = [ps EXCEPT ![gid].queue = Queue_clear(@)]
             /\ task' = [task EXCEPT ![t] =
                  [Idle EXCEPT !.op = "leave", !.g = gid, !.pc = "stop",
                               !.pref = ps[gid].id, !.vref = voice[gid].id]]
        ELSE /\ players' = ps
             /\ task' = [task EXCEPT ![t] =
                  IF mch = 0 THEN Failed(r, "MemberNotInVoiceChannel")
                  ELSE IF ~bvc.ok THEN Music_guard_not_play(r)
                  ELSE Failed(r, "DifferentVoiceChannels")]

\* A leave command arrives (its earlier checks have passed) and
\* _ensure_player_is_ready runs.
Music_leave(t, gid, mch) ==
  /\ Free(t)
  /\ nIn < MaxInputs
  /\ nIn' = nIn + 1
  /\ Music_ensure_player_is_ready_leave(t, gid, mch)
  /\ UNCHANGED <<GuardVars, StoreVars, nWrites, wlHist, voice, vcDestroyed, stayed>>

\* music.py:397-399, 177-184: stop has returned (no current track); the voice
\* client the command (or the listener of voice state updates) holds is
\* disconnected.
Music_leave_disconnect(t) ==
  /\ task[t].op \in {"leave", "on_voice_state_update"} /\ task[t].pc = "stop"
  /\ players' = IF Live(t) THEN [players EXCEPT ![task[t].g].current = 0] ELSE players
  /\ task' = [task EXCEPT ![t] =
       [task[t] EXCEPT !.pc = "disc",
                       !.pref = IF players[task[t].g].ok THEN players[task[t].g].id ELSE 0]]
  /\ UNCHANGED <<GuardVars, StoreVars, nWrites, wlHist, voice, vcDestroyed, stayed, nIn>>

Next ==
  \/ \E t \in Tasks, gid \in MusicGuilds, mch \in MemberChannels, full \in BOOLEAN :
       Music_play(t, gid, mch, full)
  \/ \E t \in Tasks : Store_get_guild_insert(t)
  \/ \E t \in Tasks : Store_get_guild_select(t)
  \/ \E t \in Tasks : Music_guard_get_guild_failed(t)
  \/ \E t \in Tasks : Music_guard_set_volume(t)
  \/ \E t \in Tasks : Music_guard_set_volume_failed(t)
  \/ \E t \in Tasks : Music_guard_connect(t)
  \/ \E t \in Tasks : Music_guard_connect_failed(t)
  \/ \E t \in Tasks : Music_guard_connected(t)
  \/ \E gid \in MusicGuilds : LavalinkVoiceClient_on_voice_state_update(gid)
  \/ \E t \in Tasks, n \in RetrievedInputs : Music_play_enqueue(t, n)
  \/ \E t \in Tasks : Music_play_start(t)
  \/ \E t \in Tasks : Music_play_done(t)
  \/ \E t \in Tasks : Music_reply(t)
  \/ \E t \in Tasks : Music_cog_app_command_error(t)
  \/ \E gid \in MusicGuilds : Lavalink_track_end(gid)
  \/ \E t \in Tasks, gid \in MusicGuilds : Lavalink_queue_end(t, gid)
  \/ \E t \in Tasks : Music_decide_bot_presence(t)
  \/ \E t \in Tasks : LavalinkVoiceClient_disconnect_finish(t)
  \/ \E t \in Tasks : Music_disconnected(t)
  \/ \E t \in Tasks, gid \in MusicGuilds : Music_presence_stay(t, gid)
  \/ \E t \in Tasks : Music_presence_stay_done(t)
  \/ \E t \in Tasks, gid \in MusicGuilds : Music_presence_leave(t, gid)
  \/ \E t \in Tasks : Music_presence_leave_disconnect(t)
  \/ \E t \in Tasks, gid \in MusicGuilds, mch \in MemberChannels : Music_leave(t, gid, mch)
  \/ \E t \in Tasks : Music_leave_disconnect(t)
  \/ \E t \in Tasks : Storage_write_commited(t)
  \/ \E gid \in MusicGuilds : TTLCache_expire(gid)

\* The Music cog: commands arriving, their coroutines, and the events of the
\* Lavalink node and of the gateway.
Spec == Init /\ [][Next]_vars

\* ============================================================ command checks
\* Commands run through their checks in one behaviour; the last second of the clock.
MaxGuarded == 3
MaxTime == 3
\* Whitelist mutations by the owner in one such behaviour.
MaxOwnerOps == 2

\* The voice channel of the member and the size of the search result of the
\* commands that are followed through their checks.
CheckedMemberChannels == {0, 1}
CheckedRetrievedInputs == {0, 1}

\* Whether the bot has the connect / speak / send_messages permissions.
PermissionInputs == BOOLEAN

\* Variant: the whitelist check lets every guild pass.
Music_is_whitelisted_any(whitelist, gid) == TRUE

\* music.py:83-86: interaction.guild_id in whitelist.guild_ids
Music_is_whitelisted(whitelist, gid) == gid \in whitelist.ids

\* discord.py cooldown check (music.py:69-72), get_bucket: the Cooldowns not
\* used for more than `per` seconds are dropped from the mapping.
Cooldown_purge(mapping, current) ==
  [g \in Tenants |->
     IF mapping[g].ok /\ current > mapping[g].last + CooldownPer
       THEN NoCooldown ELSE mapping[g]]

\* get_bucket: the Cooldown of the key, a new one (all tokens, no window yet)
\* when the mapping has none.
Cooldown_get_bucket(mapping, gid) ==
  IF mapping[gid].ok THEN mapping[gid]
  ELSE [ok |-> TRUE, tokens |-> CooldownRate, window |-> 0, last |-> 0]

\* Cooldown.update_rate_limit(current): the tokens are refilled when the
\* window has passed, the first token of a refill starts a new window, one
\* token is taken; the command is limited when the count falls below zero.
Cooldown_update_rate_limit(b, current) ==
  LET kept == IF b.tokens > 0 THEN b.tokens ELSE 0
      tokens == IF current > b.window + CooldownPer THEN CooldownRate ELSE kept
  IN  [ok |-> TRUE, tokens |-> tokens - 1,
       window |-> IF tokens = CooldownRate THEN current ELSE b.window,
       last |-> current]

\* A Music command arrives: its first check, _is_whitelisted, awaits
\* store.get_whitelist (music.py:79-83); arg: interaction.created_at.
Music_command(t, gid, cmd) ==
  /\ Free(t)
  /\ nIn < MaxGuarded
  /\ nIn' = nIn + 1
  /\ task' = [task EXCEPT ![t] =
       Store_get_whitelist_begin(
         [Idle EXCEPT !.op = cmd, !.g = gid, !.pc = "wl", !.arg = now])]
  /\ UNCHANGED <<StoreVars, nWrites, wlHist, players, voice, vcDestroyed, stayed,
                 GuardVars>>

\* music.py:83-86, 69-72, 114-119, 228-275: get_whitelist returns and the
\* checks run in the order they were registered (the decorator nearest to the
\* function first): whitelist, cooldown, bot permissions, player readiness.
\* The first check that raises ends the command; no check before the
\* readiness check suspends.
Music_checks(t, perms, mch, full) ==
  /\ task[t].op \in CooldownCommands /\ task[t].pc = "wl"
  /\ Store_get_whitelist_has_result(t)
  /\ wlCache' = Store_get_whitelist_fill(t)
  /\ LET gid == task[t].g
         cmd == task[t].op
         at == task[t].arg
         mapping == Cooldown_purge(buckets[cmd], at)
         b == Cooldown_update_rate_limit(Cooldown_get_bucket(mapping, gid), at)
     IN  IF ~Music_is_whitelisted(task[t].rw, gid)
           THEN /\ task' = [task EXCEPT ![t] = Failed(task[t], "GuildNotWhitelisted")]
                /\ UNCHANGED <<buckets, accepted, players>>
           ELSE /\ buckets' = [buckets EXCEPT ![cmd] = [mapping EXCEPT ![gid] = b]]
                /\ IF b.tokens < 0
                     THEN /\ task' = [task EXCEPT ![t] =
                               Failed(task[t], "CommandOnCooldown")]
                          /\ UNCHANGED <<accepted, players>>
                     ELSE /\ accepted' = Append(accepted,
                               [g |-> gid, cmd |-> cmd, at |-> at])
                          /\ IF ~perms
                               THEN /\ task' = [task EXCEPT ![t] =
                                         Failed(task[t], "BotMissingPermissions")]
                                    /\ UNCHANGED players
                               ELSE IF cmd = "play"
                                 THEN Music_ensure_player_is_ready_play(t, gid, mch, full)
                                 ELSE Music_ensure_player_is_ready_leave(t, gid, mch)
  /\ UNCHANGED <<rows, disk, wl, wlDisk, cache, nWrites, wlHist, voice, vcDestroyed,
                 stayed, nIn, now>>

\* owner.py:122: the owner whitelists the guild.
Owner_whitelist(t, gid) ==
  /\ Len(wlHist) < MaxOwnerOps
  /\ Store_add_to_whitelist_call(t, gid)

\* owner.py:145: the owner blacklists the guild.
Owner_blacklist(t, gid) ==
  /\ Len(wlHist) < MaxOwnerOps
  /\ Store_remove_from_whitelist_call(t, gid)

\* A second passes.
Clock_tick ==
  /\ now < MaxTime
  /\ now' = now + 1
  /\ UNCHANGED <<StoreVars, task, nWrites, wlHist, MusicVars, buckets, accepted>>

NextGuards ==
  \/ \E t \in Tasks, gid \in MusicGuilds : Owner_whitelist(t, gid)
  \/ \E t \in Tasks, gid \in MusicGuilds : Owner_blacklist(t, gid)
  \/ \E t \in Tasks : Storage_whitelist_write(t)
  \/ \E t \in Tasks : Store_whitelist_return(t)
  \/ \E t \in Tasks, gid \in MusicGuilds, cmd \in CooldownCommands :
       Music_command(t, gid, cmd)
  \/ \E t \in Tasks : Store_get_whitelist_select(t)
  \/ \E t \in Tasks, perms \in PermissionInputs, mch \in CheckedMemberChannels,
        full \in BOOLEAN : Music_checks(t, perms, mch, full)
  \/ \E t \in Tasks : Store_get_guild_insert(t)
  \/ \E t \in Tasks : Store_get_guild_select(t)
  \/ \E t \in Tasks : Music_guard_set_volume(t)
  \/ \E t \in Tasks : Music_guard_connect(t)
  \/ \E t \in Tasks : Music_guard_connected(t)
  \/ \E gid \in MusicGuilds : LavalinkVoiceClient_on_voice_state_update(gid)
  \/ \E t \in Tasks, n \in CheckedRetrievedInputs : Music_play_enqueue(t, n)
  \/ \E t \in Tasks : Music_play_start(t)
  \/ \E t \in Tasks : Music_play_done(t)
  \/ \E t \in Tasks : Music_reply(t)
  \/ \E t \in Tasks : Music_cog_app_command_error(t)
  \/ \E t \in Tasks : Music_decide_bot_presence(t)
  \/ \E t \in Tasks : Music_leave_disconnect(t)
  \/ \E t \in Tasks : LavalinkVoiceClient_disconnect_finish(t)
  \/ \E t \in Tasks : Music_disconnected(t)

\* Music commands from their arrival on: the checks in order, then the
\* command, while the owner changes the whitelist.
SpecGuards == Init /\ [][NextGuards]_vars

\* The guilds of MusicGuilds are whitelisted.
InitWhitelisted ==
  /\ rows = [g \in Tenants |-> NoRow]
  /\ disk = [g \in Tenants |-> NoRow]
  /\ wl = <<1>>
  /\ wlDisk = <<1>>
  /\ cache = [g \in Tenants |-> Absent]
  /\ wlCache = NoWl
  /\ task = [t \in Tasks |-> Idle]
  /\ nWrites = 0
  /\ wlHist = << >>
  /\ players = [g \in Tenants |-> NoPlayer]
  /\ voice = [g \in Tenants |-> NoVoice]
  /\ vcDestroyed = {}
  /\ stayed = [g \in Tenants |-> FALSE]
  /\ nIn = 0
  /\ now = 0
  /\ buckets = [c \in CooldownCommands |-> [g \in Tenants |-> NoCooldown]]
  /\ accepted = << >>

NextCooldown ==
  \/ Clock_tick
  \/ \E t \in Tasks, gid \in MusicGuilds, cmd \in CooldownCommands :
       Music_command(t, gid, cmd)
  \/ \E t \in Tasks : Store_get_whitelist_select(t)
  \/ \E t \in Tasks, perms \in PermissionInputs, mch \in CheckedMemberChannels,
        full \in BOOLEAN : Music_checks(t, perms, mch, full)
  \/ \E t \in Tasks : Store_get_guild_insert(t)
  \/ \E t \in Tasks : Store_get_guild_select(t)
  \/ \E t \in Tasks : Music_guard_set_volume(t)
  \/ \E t \in Tasks : Music_guard_connect(t)
  \/ \E t \in Tasks : Music_guard_connected(t)
  \/ \E gid \in MusicGuilds : LavalinkVoiceClient_on_voice_state_update(gid)
  \/ \E t \in Tasks, n \in CheckedRetrievedInputs : Music_play_enqueue(t, n)
  \/ \E t \in Tasks : Music_play_start(t)
  \/ \E t \in Tasks : Music_play_done(t)
  \/ \E t \in Tasks : Music_reply(t)
  \/ \E t \in Tasks : Music_cog_app_command_error(t)
  \/ \E t \in Tasks : Music_decide_bot_presence(t)
  \/ \E t \in Tasks : Music_leave_disconnect(t)
  \/ \E t \in Tasks : LavalinkVoiceClient_disconnect_finish(t)
  \/ \E t \in Tasks : Music_disconnected(t)

\* Music commands of a whitelisted guild arriving as time passes.
SpecCooldown == InitWhitelisted /\ [][NextCooldown]_vars


\* ================================================== callers of the Store
\* Object identities.  The Guild the cache holds for a guild, the Whitelist
\* the cache holds, and the object made for each caller.  An object that
\* replaces another in the cache takes its identity, so a reference to a
\* replaced entry counts as a reference to the entry.
CachedGuild(gid) == gid

CachedWhitelist == Cardinality(Tenants) + 1

FreshObject(t) == Cardinality(Tenants) + 1 + t

\* Variant: the object itself is returned.
Store_copy_same(object, fresh) == object

\* store.py:88 dataclasses.replace(guild); store.py:146 Whitelist(copy(...)):
\* the caller is handed a new object with the fields of the given one.
Store_copy(object, fresh) == fresh

\* store.py:86-88 with a caller that keeps the Guild it is handed.  On the
\* miss path the object storage built goes into the cache.
Caller_keeps_guild(t) ==
  /\ task[t].op = "store" /\ Store_get_guild_has_result(t)
  /\ cache' = Store_get_guild_fill(t)
  /\ task' = [task EXCEPT ![t] =
       [Idle EXCEPT !.op = "caller", !.call = "get_guild", !.pc = "holding",
                    !.g = task[t].g, !.loc = task[t].loc,
                    !.oid = Store_copy(CachedGuild(task[t].g), FreshObject(t))]]
  /\ UNCHANGED <<GuardVars, rows, disk, wl, wlDisk, wlCache, nWrites, wlHist,
                 MusicVars>>

\* store.py:144-146 with a caller that keeps the Whitelist it is handed.
Caller_keeps_whitelist(t) ==
  /\ task[t].op = "store" /\ Store_get_whitelist_has_result(t)
  /\ wlCache' = Store_get_whitelist_fill(t)
  /\ task' = [task EXCEPT ![t] =
       [Idle EXCEPT !.op = "caller", !.call = "get_whitelist", !.pc = "holding",
                    !.rw = task[t].rw,
                    !.oid = Store_copy(CachedWhitelist, FreshObject(t))]]
  /\ UNCHANGED <<GuardVars, rows, disk, wl, wlDisk, cache, nWrites, wlHist,
                 MusicVars>>

\* model.py:18-26: Guild is a mutable dataclass; the caller assigns a field of
\* the object it holds.  The cache entry changes iff it is that same object.
Caller_mutates_guild(t, volume) ==
  /\ task[t].pc = "holding" /\ task[t].call = "get_guild"
  /\ LET gid     == task[t].g
         mutated == [task[t].loc EXCEPT !.volume = volume]
     IN  /\ task' = [task EXCEPT ![t].loc = mutated]
         /\ cache' = IF cache[gid].ok /\ CachedGuild(gid) = task[t].oid
                       THEN [cache EXCEPT ![gid] = mutated]
                       ELSE cache
  /\ UNCHANGED <<GuardVars, rows, disk, wl, wlDisk, wlCache, nWrites,
                 wlHist, MusicVars>>

\* model.py:29-31: Whitelist.guild_ids is a set; the caller adds an id to the
\* set it holds.
Caller_mutates_whitelist(t, gid) ==
  /\ task[t].pc = "holding" /\ task[t].call = "get_whitelist"
  /\ LET mutated == [task[t].rw EXCEPT !.ids = @ \cup {gid}]
     IN  /\ task' = [task EXCEPT ![t].rw = mutated]
         /\ wlCache' = IF wlCache.ok /\ CachedWhitelist = task[t].oid
                         THEN mutated
                         ELSE wlCache
  /\ UNCHANGED <<GuardVars, rows, disk, wl, wlDisk, cache, nWrites,
                 wlHist, MusicVars>>

\* The caller drops the object it holds.
Caller_done(t) ==
  /\ task[t].pc = "holding"
  /\ task' = [task EXCEPT ![t] = Idle]
  /\ UNCHANGED <<GuardVars, StoreVars, nWrites, wlHist, MusicVars>>

NextCallers ==
  \/ \E t \in Tasks, gid \in Tenants : Store_get_guild_call(t, gid)
  \/ \E t \in Tasks : Store_get_guild_insert(t)
  \/ \E t \in Tasks : Store_get_guild_select(t)
  \/ \E t \in Tasks : Caller_keeps_guild(t)
  \/ \E t \in Tasks, v \in VolumeInputs : Caller_mutates_guild(t, v)
  \/ \E gid \in Tenants : TTLCache_expire(gid)
  \/ \E t \in Tasks, gid \in Tenants : Owner_whitelist(t, gid)
  \/ \E t \in Tasks, gid \in Tenants : Owner_blacklist(t, gid)
  \/ \E t \in Tasks : Storage_whitelist_write(t)
  \/ \E t \in Tasks : Store_whitelist_return(t)
  \/ \E t \in Tasks : Store_get_whitelist_call(t)
  \/ \E t \in Tasks : Store_get_whitelist_select(t)
  \/ \E t \in Tasks : Caller_keeps_whitelist(t)
  \/ \E t \in Tasks, gid \in Tenants : Caller_mutates_whitelist(t, gid)
  \/ TTLCache_expire_whitelist
  \/ \E t \in Tasks : Caller_done(t)

\* Coroutines that read records from the Store, keep them and change them.
SpecCallers == Init /\ [][NextCallers]_vars

\* ==================================================== the Guild dataclass
\* model.py:18-26: the fields of Guild; none has a default.
GuildFields ==
  {"id", "text_channel", "text_channel_id", "filter", "volume", "auto_leave",
   "optional_search"}

\* storage.py:72-79: the keyword arguments of the Guild(...) call.
GuildKeywords == {"id", "filter", "volume", "auto_leave", "shuffle", "loop"}

\* The __init__ a dataclass generates: a keyword that is not a field, or a
\* field without default that gets no argument, raises TypeError.
Dataclass_init_accepts(fields, keywords) ==
  keywords \subseteq fields /\ fields \subseteq keywords

\* storage.py:61-79, 92: the SELECT, then the construction of the Guild.
SQLiteStorage_get_guild_construct(t) ==
  /\ task[t].call = "get_guild" /\ task[t].spc = "sel"
  /\ task' =
       IF Dataclass_init_accepts(GuildFields, GuildKeywords)
         THEN [task EXCEPT ![t].spc = "fill",
                           ![t].loc = SQLiteStorage_get_guild(rows, task[t].g)]
         ELSE [task EXCEPT ![t].spc = "raised", ![t].err = "TypeError"]
  /\ UNCHANGED <<GuardVars, StoreVars, nWrites, wlHist, MusicVars>>

\* store.py:85: the exception of create_guild leaves Store.get_guild; neither
\* set_guild nor the return statement runs.
Store_get_guild_raise(t) ==
  /\ task[t].op = "store" /\ task[t].call = "get_guild" /\ task[t].spc = "raised"
  /\ task' = [task EXCEPT ![t] = Idle]
  /\ UNCHANGED <<GuardVars, StoreVars, nWrites, wlHist, MusicVars>>

NextRecords ==
  \/ \E t \in Tasks, gid \in Tenants : Store_get_guild_call(t, gid)
  \/ \E t \in Tasks : Store_get_guild_insert(t)
  \/ \E t \in Tasks : SQLiteStorage_get_guild_construct(t)
  \/ \E t \in Tasks : Store_get_guild_raise(t)
  \/ \E t \in Tasks, gid \in Tenants, f \in FilterInputs :
       Store_set_guild_filter_call(t, gid, f)
  \/ \E t \in Tasks, gid \in Tenants, v \in VolumeInputs :
       Store_set_guild_volume_call(t, gid, v)
  \/ \E t \in Tasks, gid \in Tenants : Store_switch_guild_shuffle_call(t, gid)
  \/ \E t \in Tasks : Storage_write_commited(t)
  \/ \E t \in Tasks : Storage_switch(t)
  \/ \E t \in Tasks : Store_setter_return(t)

\* The guild methods of the Store with the Guild class of model.py.
SpecRecords == Init /\ [][NextRecords]_vars

\* ================================================= storage write failures
\* storage.py:38-49: execute_auto_closable_commited awaits the statement and
\* then the commit; either await can raise.  A statement that raises changes
\* nothing.
Storage_execute_failed(t) ==
  /\ task[t].spc = "wr"
  /\ task[t].call \in {"set_guild_filter", "set_guild_volume", "set_guild_auto_leave"}
  /\ task' = [task EXCEPT ![t].spc = "raised", ![t].err = "OperationalError"]
  /\ UNCHANGED <<GuardVars, StoreVars, nWrites, wlHist, MusicVars>>

\* storage.py:47-49: the statement ran and the commit raises.  kept: the
\* transaction stays open with the statement in it (no rollback is issued);
\* otherwise the database rolled the transaction back.
Storage_commit_failed(t, kept) ==
  /\ task[t].spc = "wr"
  /\ task[t].call \in {"set_guild_filter", "set_guild_volume", "set_guild_auto_leave"}
  /\ rows' =
       IF ~kept THEN disk
       ELSE CASE task[t].call = "set_guild_filter" ->
                   SQLiteStorage_set_guild_filter(rows, task[t].g, task[t].arg)
              [] task[t].call = "set_guild_volume" ->
                   SQLiteStorage_set_guild_volume(rows, task[t].g, task[t].arg)
              [] task[t].call = "set_guild_auto_leave" ->
                   SQLiteStorage_set_guild_auto_leave(rows, task[t].g, task[t].flag)
  /\ wl' = IF kept THEN wl ELSE wlDisk
  /\ task' = [task EXCEPT ![t].spc = "raised", ![t].err = "OperationalError"]
  /\ UNCHANGED <<GuardVars, disk, wlDisk, cache, wlCache, nWrites, wlHist, MusicVars>>

\* store.py:110-123: the exception of the storage method leaves the setter;
\* invalidate_guild does not run and the call is not repeated.
Store_setter_raise(t) ==
  /\ task[t].op = "store" /\ task[t].spc = "raised"
  /\ task[t].call \in {"set_guild_filter", "set_guild_volume", "set_guild_auto_leave"}
  /\ task' = [task EXCEPT ![t] = Idle]
  /\ UNCHANGED <<GuardVars, StoreVars, nWrites, wlHist, MusicVars>>

NextFailures ==
  \/ \E t \in Tasks, gid \in Tenants : Store_get_guild_call(t, gid)
  \/ \E t \in Tasks : Store_get_guild_insert(t)
  \/ \E t \in Tasks : Store_get_guild_select(t)
  \/ \E t \in Tasks : Store_get_guild_return(t)
  \/ \E t \in Tasks, gid \in Tenants, f \in FilterInputs :
       Store_set_guild_filter_call(t, gid, f)
  \/ \E t \in Tasks, gid \in Tenants, v \in VolumeInputs :
       Store_set_guild_volume_call(t, gid, v)
  \/ \E t \in Tasks, gid \in Tenants, b \in AutoLeaveInputs :
       Store_set_guild_auto_leave_call(t, gid, b)
  \/ \E t \in Tasks : Storage_write_commited(t)
  \/ \E t \in Tasks : Storage_execute_failed(t)
  \/ \E t \in Tasks, kept \in BOOLEAN : Storage_commit_failed(t, kept)
  \/ \E t \in Tasks : Store_setter_return(t)
  \/ \E t \in Tasks : Store_setter_raise(t)
  \/ \E gid \in Tenants : TTLCache_expire(gid)

\* The guild methods of the Store over a storage whose writes can fail.
SpecFailures == Init /\ [][NextFailures]_vars

\* ========================================================== jump and pop
\* music.py:713, 758: position is Range[int, 1, None].
PositionInputs == {1, 2, MAX_QUEUE_SIZE, MAX_QUEUE_SIZE + 1}

\* music.py:724: player.queue[position - 1 :], the queue without its first k
\* tracks.
RECURSIVE QueueDrop(_, _)
QueueDrop(q, k) ==
  IF k = 0 \/ q = << >> THEN q
  ELSE IF k >= RunLen(Head(q)) THEN QueueDrop(Tail(q), k - RunLen(Head(q)))
  ELSE <<[lo |-> Head(q).lo + k, hi |-> Head(q).hi]>> \o Tail(q)

\* Variant: a position beyond the queue becomes the last position.
Music_position_clamped(position, queue_size) ==
  IF position > queue_size THEN queue_size ELSE position

\* music.py:722-724, 767-769: the position tested against queue_size and used
\* as the index is the one given.
Music_position(position, queue_size) == position

\* music.py:228-275, 706-741 (jump) and 751-783 (pop): _ensure_player_is_ready
\* (a command other than play never connects), then the body up to its first
\* await.  jump: the tracks before the position are dropped and player.skip()
\* starts the next track; pop: the track at the position is removed.
Music_queue_command(t, gid, mch, cmd, position) ==
  LET ps   == PlayerManager_create(players, gid)
      bvc  == BotVoiceClient(gid)
      r    == [Idle EXCEPT !.op = cmd, !.g = gid, !.mch = mch, !.pc = "guard",
                           !.arg = position, !.pref = ps[gid].id,
                           !.hadPlayer = players[gid].ok, !.hadVc = voice[gid].ok]
      b    == [Idle EXCEPT !.op = cmd, !.g = gid, !.arg = position, !.pc = "reply",
                           !.pref = ps[gid].id]
      queue_size == QueueLen(ps[gid].queue)
      pos  == Music_position(position, queue_size)
  IN  /\ Free(t)
      /\ nIn < MaxInputs
      /\ nIn' = nIn + 1
      /\ IF ~(mch # 0 /\ bvc.ok /\ mch = bvc.channel)
           THEN /\ players' = ps
                /\ task' = [task EXCEPT ![t] =
                     IF mch = 0 THEN Failed(r, "MemberNotInVoiceChannel")
                     ELSE IF ~bvc.ok THEN Music_guard_not_play(r)
                     ELSE Failed(r, "DifferentVoiceChannels")]
           ELSE IF ps[gid].queue = << >>
             THEN /\ players' = ps
                  /\ task' = [task EXCEPT ![t] = [b EXCEPT !.err = "QueueEmpty"]]
           ELSE IF ~(pos <= queue_size)
             THEN /\ players' = ps
                  /\ task' = [task EXCEPT ![t] = [b EXCEPT !.err = "OutOfRange"]]
           ELSE IF cmd = "pop"
             THEN /\ players' = [ps EXCEPT ![gid].queue = QueueRemoveAt(@, pos)]
                  /\ task' = [task EXCEPT ![t] = b]
           ELSE LET sliced == [ps[gid] EXCEPT !.queue = QueueDrop(@, pos - 1)]
                IN  /\ \E i \in DefaultPlayer_play_indices(sliced) :
                          players' = [ps EXCEPT ![gid] = DefaultPlayer_play(sliced, i)]
                    /\ task' = [task EXCEPT ![t] = [b EXCEPT !.pc = "skip"]]
      /\ UNCHANGED <<GuardVars, StoreVars, nWrites, wlHist, voice, vcDestroyed, stayed>>

\* music.py:706-741
Music_jump(t, gid, mch, position) == Music_queue_command(t, gid, mch, "jump", position)

\* music.py:751-783
Music_pop(t, gid, mch, position) == Music_queue_command(t, gid, mch, "pop", position)

\* music.py:727-734: player.skip() has returned; the reply is built.
Music_jump_skipped(t) ==
  /\ task[t].op = "jump" /\ task[t].pc = "skip"
  /\ task' = [task EXCEPT ![t].pc = "reply"]
  /\ UNCHANGED <<GuardVars, StoreVars, nWrites, wlHist, MusicVars>>

NextQueue ==
  \/ \E t \in Tasks, gid \in MusicGuilds, mch \in CheckedMemberChannels, full \in BOOLEAN :
       Music_play(t, gid, mch, full)
  \/ \E t \in Tasks : Store_get_guild_insert(t)
  \/ \E t \in Tasks : Store_get_guild_select(t)
  \/ \E t \in Tasks : Music_guard_set_volume(t)
  \/ \E t \in Tasks : Music_guard_connect(t)
  \/ \E t \in Tasks : Music_guard_connected(t)
  \/ \E gid \in MusicGuilds : LavalinkVoiceClient_on_voice_state_update(gid)
  \/ \E t \in Tasks, n \in RetrievedInputs : Music_play_enqueue(t, n)
  \/ \E t \in Tasks : Music_play_start(t)
  \/ \E t \in Tasks : Music_play_done(t)
  \/ \E t \in Tasks : Music_reply(t)
  \/ \E t \in Tasks : Music_cog_app_command_error(t)
  \/ \E gid \in MusicGuilds : Lavalink_track_end(gid)
  \/ \E t \in Tasks, gid \in MusicGuilds, mch \in CheckedMemberChannels,
        position \in PositionInputs : Music_jump(t, gid, mch, position)
  \/ \E t \in Tasks : Music_jump_skipped(t)
  \/ \E t \in Tasks, gid \in MusicGuilds, mch \in CheckedMemberChannels,
        position \in PositionInputs : Music_pop(t, gid, mch, position)

\* play, jump and pop commands on the queue of a guild.
SpecQueue == Init /\ [][NextQueue]_vars

\* ======================================================= setting commands
\* music.py:999: level is Range[int, 0, 100].
LevelInputs == {VolumeMin, VolumeMax}

\* music.py:228-588 without failures: play commands and the coroutines they
\* start, the gateway's voice state update and the end of a track with a
\* queued one to follow.
NextSession ==
  \/ \E t \in Tasks, gid \in MusicGuilds, mch \in CheckedMemberChannels, full \in BOOLEAN :
       Music_play(t, gid, mch, full)
  \/ \E t \in Tasks : Store_get_guild_insert(t)
  \/ \E t \in Tasks : Store_get_guild_select(t)
  \/ \E t \in Tasks : Music_guard_set_volume(t)
  \/ \E t \in Tasks : Music_guard_connect(t)
  \/ \E t \in Tasks : Music_guard_connected(t)
  \/ \E gid \in MusicGuilds : LavalinkVoiceClient_on_voice_state_update(gid)
  \/ \E t \in Tasks, n \in CheckedRetrievedInputs : Music_play_enqueue(t, n)
  \/ \E t \in Tasks : Music_play_start(t)
  \/ \E t \in Tasks : Music_play_done(t)
  \/ \E t \in Tasks : Music_reply(t)
  \/ \E t \in Tasks : Music_cog_app_command_error(t)
  \/ \E gid \in MusicGuilds : Lavalink_track_end(gid)

\* music.py:954-957, 977-980, 1001-1004: a shuffle, loop or volume command
\* (its checks have passed) calls the Store.  store: the Store method the
\* command calls.
Music_setting(t, gid, cmd, store, level) ==
  /\ Free(t)
  /\ nIn < MaxInputs
  /\ nIn' = nIn + 1
  /\ task' = [task EXCEPT ![t] =
       [Idle EXCEPT !.op = cmd, !.call = store, !.g = gid, !.pc = "call",
                    !.spc = "wr", !.arg = level]]
  /\ UNCHANGED <<GuardVars, StoreVars, nWrites, wlHist, players, voice,
                 vcDestroyed, stayed>>

\* music.py:954-957
Music_shuffle(t, gid) == Music_setting(t, gid, "shuffle", "switch_guild_shuffle", 0)

\* music.py:977-980: the loop command calls store.switch_guild_shuffle.
Music_loop(t, gid) == Music_setting(t, gid, "loop", "switch_guild_shuffle", 0)

\* music.py:1001-1004
Music_volume(t, gid, level) == Music_setting(t, gid, "volume", "set_guild_volume", level)

\* The frame of a setting command that has only its reply left.
SettingDone(r) ==
  [Idle EXCEPT !.op = r.op, !.g = r.g, !.pc = "reply", !.arg = r.arg, !.rb = r.rb]

\* storage.py:165-178, store.py:125-130, music.py:957-961: the statement
\* runs, the Store invalidates and returns the flag, the registered player,
\* if any, gets it.  The connection's worker answers in the order of the
\* statements, and nothing is awaited after the answer.
Music_shuffle_set(t) ==
  /\ task[t].op = "shuffle" /\ task[t].spc = "wr"
  /\ rows' = SQLiteStorage_switch_guild_shuffle(rows, task[t].g)
  /\ cache' = TimedCache_invalidate_guild(cache, task[t].g)
  /\ players' = IF players[task[t].g].ok
                  THEN [players EXCEPT ![task[t].g].shuffle = rows'[task[t].g].shuffle]
                  ELSE players
  /\ task' = [task EXCEPT ![t] =
       [SettingDone(task[t]) EXCEPT !.rb = rows'[task[t].g].shuffle]]
  /\ UNCHANGED <<GuardVars, disk, wl, wlDisk, wlCache, nWrites, wlHist,
                 voice, vcDestroyed, stayed, nIn>>

\* storage.py:165-178, store.py:125-130, music.py:977-984, 222-225: the
\* statement of switch_guild_shuffle runs; the value returned becomes the
\* loop mode of the registered player.
Music_loop_set(t) ==
  /\ task[t].op = "loop" /\ task[t].spc = "wr"
  /\ rows' = IF task[t].call = "switch_guild_shuffle"
               THEN SQLiteStorage_switch_guild_shuffle(rows, task[t].g)
               ELSE SQLiteStorage_switch_guild_loop(rows, task[t].g)
  /\ cache' = TimedCache_invalidate_guild(cache, task[t].g)
  /\ LET loop == IF task[t].call = "switch_guild_shuffle"
                   THEN rows'[task[t].g].shuffle
                   ELSE rows'[task[t].g].loop
     IN  /\ players' = IF players[task[t].g].ok
                         THEN [players EXCEPT ![task[t].g].loop = loop]
                         ELSE players
         /\ task' = [task EXCEPT ![t] = [SettingDone(task[t]) EXCEPT !.rb = loop]]
  /\ UNCHANGED <<GuardVars, disk, wl, wlDisk, wlCache, nWrites, wlHist,
                 voice, vcDestroyed, stayed, nIn>>

\* storage.py:143-152, store.py:115-118, music.py:1004-1008: the statement
\* runs and is committed, the Store invalidates and returns;
\* player.set_volume is awaited on the registered player, if any.
Music_volume_stored(t) ==
  /\ task[t].op = "volume" /\ task[t].spc = "wr"
  /\ rows' = SQLiteStorage_set_guild_volume(rows, task[t].g, task[t].arg)
  /\ disk' = rows'
  /\ wlDisk' = wl
  /\ cache' = TimedCache_invalidate_guild(cache, task[t].g)
  /\ task' = [task EXCEPT ![t] =
       IF players[task[t].g].ok
         THEN [SettingDone(task[t]) EXCEPT !.pc = "setvol",
                                           !.pref = players[task[t].g].id]
         ELSE SettingDone(task[t])]
  /\ UNCHANGED <<GuardVars, wl, wlCache, nWrites, wlHist, MusicVars>>

\* music.py:1008: the node has answered the request of player.set_volume;
\* the player takes the volume.
Music_volume_set(t) ==
  /\ task[t].op = "volume" /\ task[t].pc = "setvol"
  /\ players' = IF Live(t)
                  THEN [players EXCEPT ![task[t].g].volume = task[t].arg]
                  ELSE players
  /\ task' = [task EXCEPT ![t] = SettingDone(task[t])]
  /\ UNCHANGED <<GuardVars, StoreVars, nWrites, wlHist, voice, vcDestroyed,
                 stayed, nIn>>

NextSettings ==
  \/ NextSession
  \/ \E t \in Tasks, gid \in MusicGuilds : Music_shuffle(t, gid)
  \/ \E t \in Tasks, gid \in MusicGuilds, level \in LevelInputs :
       Music_volume(t, gid, level)
  \/ \E t \in Tasks : Music_shuffle_set(t)
  \/ \E t \in Tasks : Music_volume_stored(t)
  \/ \E t \in Tasks : Music_volume_set(t)

\* play, shuffle and volume commands of a guild.
SpecSettings == Init /\ [][NextSettings]_vars

NextLoop ==
  \/ NextSession
  \/ \E t \in Tasks, gid \in MusicGuilds : Music_loop(t, gid)
  \/ \E t \in Tasks : Music_loop_set(t)

\* play and loop commands of a guild.
SpecLoop == Init /\ [][NextLoop]_vars

\* =================================================================== seek
\* A str is a sequence of one-character strings.
DigitChars == <<"0", "1", "2", "3", "4", "5", "6", "7", "8", "9">>

IsDigit(c) == \E i \in 1..Len(DigitChars) : DigitChars[i] = c

DigitValue(c) == (CHOOSE i \in 1..Len(DigitChars) : DigitChars[i] = c) - 1

\* str(n) of a natural number, as an f-string renders it.
RECURSIVE Str(_)
Str(n) ==
  IF n < 10 THEN <<DigitChars[n + 1]>>
  ELSE Str(n \div 10) \o <<DigitChars[(n % 10) + 1]>>

\* int(s) of a str of digits.
RECURSIVE ParseInt(_)
ParseInt(s) ==
  IF s = << >> THEN 0
  ELSE 10 * ParseInt(SubSeq(s, 1, Len(s) - 1)) + DigitValue(s[Len(s)])

AllDigits(s) == \A i \in 1..Len(s) : IsDigit(s[i])

\* The parts of s between its colons.
RECURSIVE Split(_)
Split(s) ==
  IF \A i \in 1..Len(s) : s[i] # ":" THEN <<s>>
  ELSE LET i == CHOOSE k \in 1..Len(s) :
                  s[k] = ":" /\ \A j \in 1..(k - 1) : s[j] # ":"
       IN  <<SubSeq(s, 1, i - 1)>> \o Split(SubSeq(s, i + 1, Len(s)))

\* music.py:276-289
milli_to_human_readable(duration) ==
  LET total_secs == duration \div 1000
      total_mins == total_secs \div 60
      remaining_secs == total_secs % 60
      total_hours == total_mins \div 60
      remaining_mins == total_mins % 60
      pad == IF remaining_secs < 10 THEN <<"0">> ELSE << >>
      formated == <<":">> \o pad \o Str(remaining_secs)
  IN  IF total_hours > 0
        THEN Str(total_hours) \o <<":">> \o pad \o Str(remaining_mins) \o formated
        ELSE Str(remaining_mins) \o formated

\* transform returned None.
NoPosition == [ok |-> FALSE, milli |-> 0]

\* music.py:36-38, 295-313: _SEEK_TIME_RE matches hours:mm:ss (hours without
\* a leading zero) or m:ss / mm:ss (minutes without a leading zero); the
\* position is returned in milliseconds.
SeekTimeTransformer_transform(value) ==
  LET f == Split(value)
      two(x) == Len(x) = 2 /\ AllDigits(x)
  IN  IF Len(f) = 3 /\ Len(f[1]) >= 1 /\ AllDigits(f[1]) /\ f[1][1] # "0"
         /\ two(f[2]) /\ two(f[3])
        THEN [ok |-> TRUE,
              milli |-> ParseInt(f[1]) * 3600000 + ParseInt(f[2]) * 60000 + ParseInt(f[3]) * 1000]
      ELSE IF Len(f) = 2 /\ AllDigits(f[1]) /\ two(f[2])
              /\ (Len(f[1]) = 1 \/ (Len(f[1]) = 2 /\ f[1][1] # "0"))
        THEN [ok |-> TRUE, milli |-> ParseInt(f[1]) * 60000 + ParseInt(f[2]) * 1000]
      ELSE NoPosition

\* AudioTrack.duration (music.py:836) in milliseconds of the tracks of a
\* search result: 1:05, 1:05:30 and 1:10:05.
TrackDurations == <<65000, 3930000, 4205000>>

TrackDuration(track) == TrackDurations[((track - 1) % Len(TrackDurations)) + 1]

\* The tracks a search returns in the runs with seek.
SeekRetrievedInputs == {0, Len(TrackDurations)}

\* The position argument of seek: not a position, the start, the end of the
\* first track, one second more, one hour, two hours.
SeekInputs ==
  {<<"5", ":", "3">>, <<"0", ":", "0", "0">>, <<"1", ":", "0", "5">>,
   <<"1", ":", "0", "6">>, <<"1", ":", "0", "0", ":", "0", "0">>,
   <<"2", ":", "0", "0", ":", "0", "0">>}

\* music.py:320-334, 818-851: a seek command whose checks have passed (the
\* bot is in the member's channel, _is_playing found a current track) runs
\* up to player.seek or to its reply.  val keeps the argument, arg the
\* position in milliseconds, out the duration written in the reply.
Music_seek(t, gid, value) ==
  /\ Free(t)
  /\ nIn < MaxInputs
  /\ voice[gid].ok /\ players[gid].ok
  /\ DefaultPlayer_is_playing(players[gid])
  /\ nIn' = nIn + 1
  /\ LET position == SeekTimeTransformer_transform(value)
         r == [Idle EXCEPT !.op = "seek", !.g = gid, !.pc = "reply", !.val = value,
                           !.pref = players[gid].id, !.sv = players[gid].current]
     IN  task' = [task EXCEPT ![t] =
           IF ~position.ok THEN [r EXCEPT !.err = "InvalidPosition"]
           ELSE IF position.milli > TrackDuration(players[gid].current)
             THEN [r EXCEPT !.err = "TrackShorter", !.arg = position.milli,
                            !.out = milli_to_human_readable(
                                      TrackDuration(players[gid].current))]
             ELSE [r EXCEPT !.pc = "seeking", !.arg = position.milli]]
  /\ UNCHANGED <<GuardVars, StoreVars, nWrites, wlHist, players, voice,
                 vcDestroyed, stayed>>

\* music.py:844: the node has answered player.seek: the playback of the
\* player's track is at the position asked for.
Music_seek_done(t) ==
  /\ task[t].op = "seek" /\ task[t].pc = "seeking"
  /\ players' = IF Live(t) /\ players[task[t].g].current # 0
                  THEN [players EXCEPT ![task[t].g].position = task[t].arg]
                  ELSE players
  /\ task' = [task EXCEPT ![t].pc = "reply"]
  /\ UNCHANGED <<GuardVars, StoreVars, nWrites, wlHist, voice, vcDestroyed,
                 stayed, nIn>>

NextSeek ==
  \/ \E t \in Tasks, gid \in MusicGuilds, mch \in CheckedMemberChannels, full \in BOOLEAN :
       Music_play(t, gid, mch, full)
  \/ \E t \in Tasks : Store_get_guild_insert(t)
  \/ \E t \in Tasks : Store_get_guild_select(t)
  \/ \E t \in Tasks : Music_guard_set_volume(t)
  \/ \E t \in Tasks : Music_guard_connect(t)
  \/ \E t \in Tasks : Music_guard_connected(t)
  \/ \E gid \in MusicGuilds : LavalinkVoiceClient_on_voice_state_update(gid)
  \/ \E t \in Tasks, n \in SeekRetrievedInputs : Music_play_enqueue(t, n)
  \/ \E t \in Tasks : Music_play_start(t)
  \/ \E t \in Tasks : Music_play_done(t)
  \/ \E t \in Tasks : Music_reply(t)
  \/ \E t \in Tasks : Music_cog_app_command_error(t)
  \/ \E gid \in MusicGuilds : Lavalink_track_end(gid)
  \/ \E t \in Tasks, gid \in MusicGuilds, value \in SeekInputs : Music_seek(t, gid, value)
  \/ \E t \in Tasks : Music_seek_done(t)

\* play and seek commands of a guild.
SpecSeek == Init /\ [][NextSeek]_vars

\* ============================================== pause, resume, skip, seek
Controls == {"pause", "resume", "skip", "seek"}

\* Variant: the player never reports that it is paused.
DefaultPlayer_paused_never(p) == FALSE

\* music.py:645, 665: player.paused
DefaultPlayer_paused(p) == p.paused

\* music.py:228-275, 320-334, 634-696, 818-851: a pause, resume, skip or seek
\* command: _ensure_player_is_ready (a command other than play never
\* connects), _is_playing, then the body up to its first await or its reply.
\* skip: player.skip() is play(), which takes the next track or, with nothing
\* left, stops and dispatches the QueueEndEvent to on_queue_end.
Music_control(t, gid, mch, cmd, value) ==
  LET ps  == PlayerManager_create(players, gid)
      bvc == BotVoiceClient(gid)
      r   == [Idle EXCEPT !.op = cmd, !.g = gid, !.mch = mch, !.pc = "guard",
                          !.pref = ps[gid].id, !.hadPlayer = players[gid].ok,
                          !.hadVc = voice[gid].ok]
      b   == [Idle EXCEPT !.op = cmd, !.g = gid, !.mch = mch, !.pc = "reply",
                          !.pref = ps[gid].id, !.sv = ps[gid].current]
  IN  IF mch # 0 /\ bvc.ok /\ mch = bvc.channel /\ DefaultPlayer_is_playing(ps[gid])
        THEN IF cmd = "seek" THEN Music_seek(t, gid, value)
             ELSE /\ Free(t)
                  /\ nIn < MaxInputs
                  /\ nIn' = nIn + 1
                  /\ IF cmd = "pause"
                       THEN /\ players' = ps
                            /\ task' = [task EXCEPT ![t] =
                                 IF ~DefaultPlayer_paused(ps[gid])
                                   THEN [b EXCEPT !.pc = "set_pause", !.flag = TRUE]
                                   ELSE [b EXCEPT !.err = "AlreadyPaused"]]
                     ELSE IF cmd = "resume"
                       THEN /\ players' = ps
                            /\ task' = [task EXCEPT ![t] =
                                 IF DefaultPlayer_paused(ps[gid])
                                   THEN [b EXCEPT !.pc = "set_pause", !.flag = FALSE]
                                   ELSE [b EXCEPT !.err = "NotPaused"]]
                     ELSE IF DefaultPlayer_play_indices(ps[gid]) = {}
                       THEN /\ players' =
                                 [ps EXCEPT ![gid] = DefaultPlayer_play_nothing(ps[gid])]
                            /\ task' = [task EXCEPT ![t] = Music_on_queue_end(gid)]
                     ELSE /\ \E i \in DefaultPlayer_play_indices(ps[gid]) :
                               players' = [ps EXCEPT ![gid] = DefaultPlayer_play(ps[gid], i)]
                          /\ task' = [task EXCEPT ![t] = b]
                  /\ UNCHANGED <<GuardVars, StoreVars, nWrites, wlHist, voice,
                                 vcDestroyed, stayed>>
        ELSE /\ Free(t)
             /\ nIn < MaxInputs
             /\ nIn' = nIn + 1
             /\ players' = ps
             /\ task' = [task EXCEPT ![t] =
                  IF mch = 0 THEN Failed(r, "MemberNotInVoiceChannel")
                  ELSE IF ~bvc.ok THEN Music_guard_not_play(r)
                  ELSE IF mch # bvc.channel THEN Failed(r, "DifferentVoiceChannels")
                  ELSE [Failed(r, "NotPlaying") EXCEPT !.mch = mch]]
             /\ UNCHANGED <<GuardVars, StoreVars, nWrites, wlHist, voice,
                            vcDestroyed, stayed>>

\* music.py:646, 666: the node has answered player.set_pause; the player
\* takes the flag.
Music_set_pause_done(t) ==
  /\ task[t].op \in {"pause", "resume"} /\ task[t].pc = "set_pause"
  /\ players' = IF Live(t)
                  THEN [players EXCEPT ![task[t].g].paused = task[t].flag]
                  ELSE players
  /\ task' = [task EXCEPT ![t].pc = "reply"]
  /\ UNCHANGED <<GuardVars, StoreVars, nWrites, wlHist, voice, vcDestroyed,
                 stayed, nIn>>

NextControls ==
  \/ NextSession
  \/ \E t \in Tasks, gid \in MusicGuilds, mch \in CheckedMemberChannels,
        cmd \in Controls, value \in SeekInputs : Music_control(t, gid, mch, cmd, value)
  \/ \E t \in Tasks : Music_set_pause_done(t)
  \/ \E t \in Tasks : Music_seek_done(t)
  \/ \E t \in Tasks, gid \in MusicGuilds : Lavalink_queue_end(t, gid)
  \/ \E t \in Tasks : Music_decide_bot_presence(t)

\* play, pause, resume, skip and seek commands of a guild.
SpecControls == Init /\ [][NextControls]_vars

\* ================================================================= leave
\* The commands that bring a session into each of its states before a leave.
LeaveControls == {"pause"}

NextLeave ==
  \/ NextSession
  \/ \E t \in Tasks, gid \in MusicGuilds, mch \in CheckedMemberChannels,
        cmd \in LeaveControls : Music_control(t, gid, mch, cmd, << >>)
  \/ \E t \in Tasks : Music_set_pause_done(t)
  \/ \E t \in Tasks, gid \in MusicGuilds : Lavalink_queue_end(t, gid)
  \/ \E t \in Tasks : Music_decide_bot_presence(t)
  \/ \E t \in Tasks, gid \in MusicGuilds, mch \in CheckedMemberChannels :
       Music_leave(t, gid, mch)
  \/ \E t \in Tasks : Music_leave_disconnect(t)
  \/ \E t \in Tasks : LavalinkVoiceClient_disconnect_finish(t)
  \/ \E t \in Tasks : Music_disconnected(t)

\* play, pause and leave commands of a guild; the event loop resumes every
\* coroutine of a leave whose await has been answered.
SpecLeaveFair ==
  /\ Init /\ [][NextLeave]_vars
  /\ \A t \in Tasks : WF_vars(Music_leave_disconnect(t))
  /\ \A t \in Tasks : WF_vars(LavalinkVoiceClient_disconnect_finish(t))
  /\ \A t \in Tasks : WF_vars(Music_disconnected(t))

\* ================================================= voice state listener
\* voice_client.channel.voice_states as the listener finds it: whether the
\* bot is among the members, and how many other members there are.
VoiceStatesInputs == {[bot |-> b, others |-> n] : b \in BOOLEAN, n \in 0..1}

\* Variant: one member, whoever it is.
BotIsAlone_any(voice_states) ==
  (IF voice_states.bot THEN 1 ELSE 0) + voice_states.others = 1

\* music.py:487: len(voice_states) == 1 and self._bot.user.id in voice_states
BotIsAlone(voice_states) ==
  (IF voice_states.bot THEN 1 ELSE 0) + voice_states.others = 1 /\ voice_states.bot

\* music.py:468-488, 393-397: the cog's listener of voice state updates, for
\* a member whose channel was before and is after.  Without a player or a
\* voice client, for a change elsewhere, or with company, it returns; alone
\* in its channel it clears the queue and awaits player.stop().  mch, arg,
\* flag and free keep the inputs.
Music_on_voice_state_update(t, gid, before, after, voice_states) ==
  /\ Free(t)
  /\ nIn < MaxInputs
  /\ nIn' = nIn + 1
  /\ LET r == [Idle EXCEPT !.op = "on_voice_state_update", !.g = gid, !.pc = "return",
                           !.mch = before, !.arg = after, !.flag = voice_states.bot,
                           !.free = voice_states.others]
         channel_id == voice[gid].channel
     IN  IF /\ players[gid].ok /\ voice[gid].ok
            /\ ((before # 0 /\ before = channel_id) \/ (after # 0 /\ after = channel_id))
            /\ BotIsAlone(voice_states)
           THEN /\ players' = [players EXCEPT ![gid].queue = Queue_clear(@)]
                /\ task' = [task EXCEPT ![t] =
                     [r EXCEPT !.pc = "stop", !.pref = players[gid].id,
                               !.vref = voice[gid].id]]
           ELSE /\ players' = players
                /\ task' = [task EXCEPT ![t] = r]
  /\ UNCHANGED <<GuardVars, StoreVars, nWrites, wlHist, voice, vcDestroyed, stayed>>

\* music.py:474-488, 401-403: a listener returns.
Music_listener_return(t) ==
  /\ task[t].pc = "return"
  /\ task' = [task EXCEPT ![t] = Idle]
  /\ UNCHANGED <<GuardVars, StoreVars, nWrites, wlHist, MusicVars>>

NextAlone ==
  \/ NextSession
  \/ \E t \in Tasks, gid \in MusicGuilds, before \in MemberChannels,
        after \in MemberChannels, voice_states \in VoiceStatesInputs :
       Music_on_voice_state_update(t, gid, before, after, voice_states)
  \/ \E t \in Tasks : Music_listener_return(t)
  \/ \E t \in Tasks : Music_leave_disconnect(t)
  \/ \E t \in Tasks : LavalinkVoiceClient_disconnect_finish(t)
  \/ \E t \in Tasks : Music_disconnected(t)

\* play commands and voice state updates of a guild; the event loop resumes
\* every coroutine of the listener whose await has been answered.
SpecAloneFair ==
  /\ Init /\ [][NextAlone]_vars
  /\ \A t \in Tasks : WF_vars(Music_leave_disconnect(t))
  /\ \A t \in Tasks : WF_vars(LavalinkVoiceClient_disconnect_finish(t))
  /\ \A t \in Tasks : WF_vars(Music_disconnected(t))

\* ================================================== lavalink listeners
\* Variant: the guild is always found.
Bot_get_guild_always(exists) == TRUE

\* music.py:381: self._bot.get_guild(guild_id); exists: whether the bot is
\* still a member of the guild.
Bot_get_guild(exists) == exists

\* music.py:380-386: _guild_still_exists up to its await: the player of a
\* guild the bot does not find is destroyed.
Music_guild_still_exists(ps, gid, exists) ==
  IF Bot_get_guild(exists) THEN ps ELSE PlayerManager_destroy(ps, gid)

\* music.py:401-403: a track of the guild's player has started and the
\* TrackStartEvent reaches on_track_start.  flag keeps exists.
Music_on_track_start(t, gid, exists) ==
  /\ Free(t)
  /\ nIn < MaxInputs
  /\ players[gid].ok /\ players[gid].current # 0
  /\ nIn' = nIn + 1
  /\ players' = Music_guild_still_exists(players, gid, exists)
  /\ task' = [task EXCEPT ![t] =
       [Idle EXCEPT !.op = "on_track_start", !.g = gid, !.pc = "return",
                    !.flag = exists]]
  /\ UNCHANGED <<GuardVars, StoreVars, nWrites, wlHist, voice, vcDestroyed, stayed>>

NextTrackStart ==
  \/ NextSession
  \/ \E t \in Tasks, gid \in MusicGuilds, exists \in BOOLEAN :
       Music_on_track_start(t, gid, exists)
  \/ \E t \in Tasks : Music_listener_return(t)

\* play commands and the track-started events of a guild.
SpecTrackStart == Init /\ [][NextTrackStart]_vars

\* What becomes of the track DefaultPlayer.play() has made the current one:
\* it is loaded and sent to the node, loading it fails (the
\* TrackLoadFailedEvent is dispatched and awaited inside play()), or the
\* request to the node raises.
PlayOutcomes == {"loaded", "failed", "raised"}

\* Variant: a second attempt follows the first at once.
Music_load_failed_play_retrying(r, ps, i) ==
  IF ~ps[r.g].ok \/ ps[r.g].id # r.pref \/ DefaultPlayer_play_indices(ps[r.g]) = {}
    THEN [players |-> ps, frame |-> [r EXCEPT !.pc = "return"]]
    ELSE LET once == DefaultPlayer_play(ps[r.g], i)
             twice == IF DefaultPlayer_play_indices(once) = {}
                        THEN DefaultPlayer_play_nothing(once)
                        ELSE DefaultPlayer_play(once, 1)
         IN  [players |-> [ps EXCEPT ![r.g] = twice],
              frame |-> [r EXCEPT !.pc = "load", !.arg = 2, !.turn = ~r.turn]]

\* music.py:432-437 and lavalink DefaultPlayer.play() up to its first await,
\* called by on_track_load_failed (frame r, one attempt: arg; turn flips each
\* time the listener starts): with a track to play it becomes the current
\* one and is loaded; with none the player stops and the QueueEndEvent
\* reaches on_queue_end inside play().
Music_load_failed_play(r, ps, i) ==
  IF ~ps[r.g].ok \/ ps[r.g].id # r.pref
    THEN [players |-> ps, frame |-> [r EXCEPT !.pc = "return"]]
  ELSE IF DefaultPlayer_play_indices(ps[r.g]) = {}
    THEN [players |-> [ps EXCEPT ![r.g] = DefaultPlayer_play_nothing(ps[r.g])],
          frame |-> Music_on_queue_end(r.g)]
    ELSE [players |-> [ps EXCEPT ![r.g] = DefaultPlayer_play(ps[r.g], i)],
          frame |-> [r EXCEPT !.pc = "load", !.arg = 1, !.turn = ~r.turn]]

\* The positions the attempt of on_track_load_failed may pop (1 when there is
\* nothing to pop).
LoadFailedIndices(p) ==
  IF DefaultPlayer_play_indices(p) = {} THEN {1} ELSE DefaultPlayer_play_indices(p)

\* music.py:422-437: loading the current track of the guild's player has
\* failed and the TrackLoadFailedEvent reaches on_track_load_failed: a guild
\* that is gone loses its player, else player.play() is awaited.
Music_on_track_load_failed(t, gid, exists) ==
  /\ Free(t)
  /\ nIn < MaxInputs
  /\ players[gid].ok /\ players[gid].current # 0
  /\ nIn' = nIn + 1
  /\ LET r == [Idle EXCEPT !.op = "on_track_load_failed", !.g = gid,
                           !.pref = players[gid].id, !.flag = exists]
     IN  IF ~Bot_get_guild(exists)
           THEN /\ players' = Music_guild_still_exists(players, gid, exists)
                /\ task' = [task EXCEPT ![t] = [r EXCEPT !.pc = "return"]]
           ELSE \E i \in LoadFailedIndices(players[gid]) :
                  LET n == Music_load_failed_play(r, players, i)
                  IN  players' = n.players /\ task' = [task EXCEPT ![t] = n.frame]
  /\ UNCHANGED <<GuardVars, StoreVars, nWrites, wlHist, voice, vcDestroyed, stayed>>

\* music.py:437-443: the attempt of on_track_load_failed ends.  loaded: the
\* listener returns; raised: the exception is logged and
\* _decide_bot_presence runs; failed: the event dispatched inside play()
\* reaches on_track_load_failed again, which makes its own attempt.
Music_load_failed_outcome(t, outcome) ==
  /\ task[t].op = "on_track_load_failed" /\ task[t].pc = "load"
  /\ LET r == task[t]
     IN  IF outcome = "loaded"
           THEN /\ task' = [task EXCEPT ![t] = [r EXCEPT !.pc = "return"]]
                /\ UNCHANGED players
         ELSE IF outcome = "raised"
           THEN /\ task' = [task EXCEPT ![t] =
                     Store_get_guild_begin([r EXCEPT !.pc = "decide"], r.g)]
                /\ UNCHANGED players
         ELSE \E i \in LoadFailedIndices(players[r.g]) :
                LET n == Music_load_failed_play(r, players, i)
                IN  players' = n.players /\ task' = [task EXCEPT ![t] = n.frame]
  /\ UNCHANGED <<GuardVars, StoreVars, nWrites, wlHist, voice, vcDestroyed,
                 stayed, nIn>>

NextLoadFailed ==
  \/ NextSession
  \/ \E t \in Tasks, gid \in MusicGuilds, exists \in BOOLEAN :
       Music_on_track_load_failed(t, gid, exists)
  \/ \E t \in Tasks, outcome \in PlayOutcomes : Music_load_failed_outcome(t, outcome)
  \/ \E t \in Tasks : Music_listener_return(t)
  \/ \E t \in Tasks : Music_decide_bot_presence(t)
  \/ \E t \in Tasks, gid \in MusicGuilds : Music_presence_leave(t, gid)
  \/ \E t \in Tasks : Storage_write_commited(t)
  \/ \E t \in Tasks : Music_presence_leave_disconnect(t)
  \/ \E t \in Tasks : LavalinkVoiceClient_disconnect_finish(t)
  \/ \E t \in Tasks : Music_disconnected(t)

\* play and presence leave commands and the track-load-failed events of a
\* guild.
SpecLoadFailed == Init /\ [][NextLoadFailed]_vars

\* The bot stays in the guild and every track fails to load.
NextAllFail ==
  \/ NextSession
  \/ \E t \in Tasks, gid \in MusicGuilds : Music_loop(t, gid)
  \/ \E t \in Tasks : Music_loop_set(t)
  \/ \E t \in Tasks, gid \in MusicGuilds : Music_on_track_load_failed(t, gid, TRUE)
  \/ \E t \in Tasks : Music_load_failed_outcome(t, "failed")
  \/ \E t \in Tasks : Music_decide_bot_presence(t)

\* play and loop commands and the track-load-failed events of a guild whose
\* tracks all fail to load; the event loop resumes the listener when the
\* load it awaits has failed and when the Store has answered.
SpecAllFailFair ==
  /\ Init /\ [][NextAllFail]_vars
  /\ \A t \in Tasks : WF_vars(Music_load_failed_outcome(t, "failed"))
  /\ \A t \in Tasks : WF_vars(Store_get_guild_insert(t))
  /\ \A t \in Tasks : WF_vars(Store_get_guild_select(t))
  /\ \A t \in Tasks : WF_vars(Music_decide_bot_presence(t))

\* ===================================================== guarded commands
\* music.py:228-275, 909-926: a wipe command: _ensure_player_is_ready (a
\* command other than play never connects), then the body: a queue with
\* tracks is replaced by an empty one.
Music_wipe(t, gid, mch) ==
  LET ps  == PlayerManager_create(players, gid)
      bvc == BotVoiceClient(gid)
      r   == [Idle EXCEPT !.op = "wipe", !.g = gid, !.mch = mch, !.pc = "guard",
                          !.pref = ps[gid].id, !.hadPlayer = players[gid].ok,
                          !.hadVc = voice[gid].ok]
      b   == [Idle EXCEPT !.op = "wipe", !.g = gid, !.pc = "reply", !.pref = ps[gid].id]
  IN  /\ Free(t)
      /\ nIn < MaxInputs
      /\ nIn' = nIn + 1
      /\ IF ~(mch # 0 /\ bvc.ok /\ mch = bvc.channel)
           THEN /\ players' = ps
                /\ task' = [task EXCEPT ![t] =
                     IF mch = 0 THEN Failed(r, "MemberNotInVoiceChannel")
                     ELSE IF ~bvc.ok THEN Music_guard_not_play(r)
                     ELSE Failed(r, "DifferentVoiceChannels")]
           ELSE IF ps[gid].queue # << >>
             THEN /\ players' = [ps EXCEPT ![gid].queue = << >>]
                  /\ task' = [task EXCEPT ![t] = b]
             ELSE /\ players' = ps
                  /\ task' = [task EXCEPT ![t] = [b EXCEPT !.err = "QueueEmpty"]]
      /\ UNCHANGED <<GuardVars, StoreVars, nWrites, wlHist, voice, vcDestroyed, stayed>>

\* The arguments of the commands in the runs with every guarded command.
GuardedPositions == {1, 2}
GuardedSeekInputs == {<<"0", ":", "0", "0">>}

\* A command of the commands decorated with _ensure_player_is_ready other
\* than play arrives from a member in channel mch.
Music_guarded_command(t, gid, mch) ==
  \/ Music_leave(t, gid, mch)
  \/ Music_wipe(t, gid, mch)
  \/ \E position \in GuardedPositions : Music_jump(t, gid, mch, position)
  \/ \E position \in GuardedPositions : Music_pop(t, gid, mch, position)
  \/ \E cmd \in Controls, value \in GuardedSeekInputs :
       Music_control(t, gid, mch, cmd, value)

NextCommands ==
  \/ NextSession
  \/ \E t \in Tasks, gid \in MusicGuilds, full \in BOOLEAN,
        mch \in MemberChannels \ CheckedMemberChannels : Music_play(t, gid, mch, full)
  \/ \E t \in Tasks, gid \in MusicGuilds, mch \in MemberChannels :
       Music_guarded_command(t, gid, mch)
  \/ \E t \in Tasks : Music_leave_disconnect(t)
  \/ \E t \in Tasks : LavalinkVoiceClient_disconnect_finish(t)
  \/ \E t \in Tasks : Music_disconnected(t)
  \/ \E t \in Tasks : Music_jump_skipped(t)
  \/ \E t \in Tasks : Music_set_pause_done(t)
  \/ \E t \in Tasks : Music_seek_done(t)
  \/ \E t \in Tasks, gid \in MusicGuilds : Lavalink_queue_end(t, gid)
  \/ \E t \in Tasks : Music_decide_bot_presence(t)

\* Every command that runs _ensure_player_is_ready, from members of either
\* voice channel and of none.
SpecCommands == Init /\ [][NextCommands]_vars

\* ====================================================== jump under shuffle
\* The tracks a search returns and the positions asked for in these runs.
JumpRetrievedInputs == {0, 3}
JumpPositions == {1, 2, 3}

NextJump ==
  \/ \E t \in Tasks, gid \in MusicGuilds, mch \in CheckedMemberChannels, full \in BOOLEAN :
       Music_play(t, gid, mch, full)
  \/ \E t \in Tasks : Store_get_guild_insert(t)
  \/ \E t \in Tasks : Store_get_guild_select(t)
  \/ \E t \in Tasks : Music_guard_set_volume(t)
  \/ \E t \in Tasks : Music_guard_connect(t)
  \/ \E t \in Tasks : Music_guard_connected(t)
  \/ \E gid \in MusicGuilds : LavalinkVoiceClient_on_voice_state_update(gid)
  \/ \E t \in Tasks, n \in JumpRetrievedInputs : Music_play_enqueue(t, n)
  \/ \E t \in Tasks : Music_play_start(t)
  \/ \E t \in Tasks : Music_play_done(t)
  \/ \E t \in Tasks : Music_reply(t)
  \/ \E t \in Tasks : Music_cog_app_command_error(t)
  \/ \E t \in Tasks, gid \in MusicGuilds, mch \in CheckedMemberChannels,
        position \in JumpPositions : Music_jump(t, gid, mch, position)
  \/ \E t \in Tasks : Music_jump_skipped(t)
  \/ \E t \in Tasks, gid \in MusicGuilds : Music_shuffle(t, gid)
  \/ \E t \in Tasks : Music_shuffle_set(t)

\* play, jump and shuffle commands of a guild.
SpecJump == Init /\ [][NextJump]_vars

\* ================================================== failing event hooks
\* Variant: the exception of a hook escapes the dispatcher, whose coroutine
\* ends with it.
Lavalink_hook_wrapper_raising(r, e) ==
  [Idle EXCEPT !.op = r.op, !.g = r.g, !.pc = "raised", !.err = e]

\* music.py:445-447 as run by lavalink's event dispatcher: each hook is
\* awaited inside a try whose except clause logs the exception.  arg
\* (history): the number of commands and events arrived so far.
Lavalink_hook_wrapper(r, e) ==
  [Idle EXCEPT !.op = r.op, !.g = r.g, !.pc = "logged", !.err = e, !.arg = nIn]

\* music.py:377: store.get_guild raises inside _decide_bot_presence; the
\* exception leaves on_queue_end.
Music_decide_get_guild_failed(t) ==
  /\ task[t].op = "on_queue_end" /\ task[t].pc = "decide"
  /\ task[t].call = "get_guild" /\ task[t].spc \in {"ins", "sel"}
  /\ task' = [task EXCEPT ![t] = Lavalink_hook_wrapper(task[t], "StorageError")]
  /\ UNCHANGED <<GuardVars, StoreVars, nWrites, wlHist, MusicVars>>

\* The dispatcher has logged the exception of the hook and returns.
Lavalink_hook_logged(t) ==
  /\ task[t].pc = "logged"
  /\ task' = [task EXCEPT ![t] = Idle]
  /\ UNCHANGED <<GuardVars, StoreVars, nWrites, wlHist, MusicVars>>

NextHooks ==
  \/ \E t \in Tasks, gid \in Tenants : Music_play(t, gid, 1, FALSE)
  \/ \E t \in Tasks : Store_get_guild_insert(t)
  \/ \E t \in Tasks : Store_get_guild_select(t)
  \/ \E t \in Tasks : Music_guard_set_volume(t)
  \/ \E t \in Tasks : Music_guard_connect(t)
  \/ \E t \in Tasks : Music_guard_connected(t)
  \/ \E gid \in Tenants : LavalinkVoiceClient_on_voice_state_update(gid)
  \/ \E t \in Tasks, n \in CheckedRetrievedInputs : Music_play_enqueue(t, n)
  \/ \E t \in Tasks : Music_play_start(t)
  \/ \E t \in Tasks : Music_play_done(t)
  \/ \E t \in Tasks : Music_reply(t)
  \/ \E t \in Tasks : Music_cog_app_command_error(t)
  \/ \E t \in Tasks, gid \in Tenants : Lavalink_queue_end(t, gid)
  \/ \E t \in Tasks : Music_decide_get_guild_failed(t)
  \/ \E t \in Tasks : Lavalink_hook_logged(t)
  \/ \E t \in Tasks : Music_decide_bot_presence(t)

\* Sessions of two guilds whose queue-end hooks can fail in the Store; the
\* event loop resumes a hook whose await has been answered.
SpecHooksFair ==
  /\ Init /\ [][NextHooks]_vars
  /\ \A t \in Tasks : WF_vars(Store_get_guild_insert(t))
  /\ \A t \in Tasks : WF_vars(Store_get_guild_select(t))
  /\ \A t \in Tasks : WF_vars(Music_decide_bot_presence(t))
  /\ \A t \in Tasks : WF_vars(Lavalink_hook_logged(t))

\* ================================================ teardown of a voice client
\* music.py:145-150, 133-143: the gateway's VOICE_STATE_UPDATE for the bot
\* with channel_id null reaches the guild's registered voice client, which
\* runs _destroy: cleanup() unregisters it and, unless it was destroyed
\* before, the flag is set and the guild's player is destroyed.
LavalinkVoiceClient_on_voice_state_update_null(gid) ==
  /\ voice[gid].ok
  /\ nIn < MaxInputs
  /\ nIn' = nIn + 1
  /\ voice' = [voice EXCEPT ![gid] = NoVoice]
  /\ stayed' = [stayed EXCEPT ![gid] = FALSE]
  /\ IF LavalinkVoiceClient_destroyed(voice[gid].id)
       THEN UNCHANGED <<players, vcDestroyed>>
       ELSE /\ players' = PlayerManager_destroy(players, gid)
            /\ vcDestroyed' = vcDestroyed \cup {voice[gid].id}
  /\ UNCHANGED <<GuardVars, StoreVars, task, nWrites, wlHist>>

\* music.py:177-183: disconnect(force=False) is called on the guild's
\* registered voice client: with a player that is not connected it returns at
\* once, else it goes on as a forced one.
LavalinkVoiceClient_disconnect_unforced(t, gid) ==
  /\ Free(t)
  /\ voice[gid].ok /\ players[gid].ok
  /\ nIn < MaxInputs
  /\ nIn' = nIn + 1
  /\ task' = [task EXCEPT ![t] =
       IF players[gid].channel = 0 THEN Idle
       ELSE LavalinkVoiceClient_disconnect(
              [Idle EXCEPT !.op = "disconnect", !.g = gid])]
  /\ UNCHANGED <<GuardVars, StoreVars, nWrites, wlHist, players, voice,
                 vcDestroyed, stayed>>

NextTeardown ==
  \/ NextSession
  \/ \E t \in Tasks, gid \in MusicGuilds, mch \in CheckedMemberChannels :
       Music_leave(t, gid, mch)
  \/ \E t \in Tasks : Music_leave_disconnect(t)
  \/ \E t \in Tasks : LavalinkVoiceClient_disconnect_finish(t)
  \/ \E t \in Tasks : Music_disconnected(t)
  \/ \E gid \in MusicGuilds : LavalinkVoiceClient_on_voice_state_update_null(gid)
  \/ \E t \in Tasks, gid \in MusicGuilds : LavalinkVoiceClient_disconnect_unforced(t, gid)

\* play and leave commands of a guild, disconnect calls on its voice client
\* and the gateway's null voice state updates.
SpecTeardown == Init /\ [][NextTeardown]_vars

\* ======================================================== Store properties
Quiescent == \A t \in Tasks : task[t].pc = "idle"

\* C1: a get_guild called after a setter has returned never returns a row
\* older than the last committed write: the Guild it is about to return
\* (read from storage, since the cache lookup always misses) carries a
\* version at least that of the committed row at the time of the call.
C1_CacheCoherence ==
  \A t \in Tasks :
    Store_get_guild_has_result(t) =>
      (task[t].loc.ok /\ task[t].loc.ver >= task[t].sv)

\* A get_guild called after a committed write is about to return.
C1_Witness ==
  \E t \in Tasks :
    task[t].call = "get_guild" /\ task[t].spc = "fill" /\ task[t].sv >= 1

\* C2 (as claimed): once a get_guild and a set_guild_volume for the same guild
\* have both completed, the cache entry of the guild is absent or holds the
\* durable volume.
C2_NoStaleEntryAfterWrite ==
  Quiescent =>
    \A gid \in Tenants : cache[gid].ok => cache[gid].volume = disk[gid].volume

C10_IdempotentWhitelist ==
  /\ \A i \in 1..Len(wlHist) :
       (wlHist[i].op = "remove_from_whitelist"
          /\ ~InTable(wlHist[i].before, wlHist[i].id)) =>
         (~wlHist[i].res /\ wlHist[i].after = wlHist[i].before)
  /\ \A i \in 1..(Len(wlHist) - 1) :
       (/\ wlHist[i].op = "add_to_whitelist"
        /\ wlHist[i + 1].op = "add_to_whitelist"
        /\ wlHist[i + 1].id = wlHist[i].id
        /\ ~InTable(wlHist[i].before, wlHist[i].id)) =>
         (/\ wlHist[i].res
          /\ ~wlHist[i + 1].res
          /\ Count(wlHist[i + 1].after, wlHist[i].id) = 1)

\* Two adds of the same new id in a row, and a remove of a non-member, happened.
C10_Witness ==
  /\ \E i \in 1..(Len(wlHist) - 1) :
       /\ wlHist[i].op = "add_to_whitelist"
       /\ wlHist[i + 1].op = "add_to_whitelist"
       /\ wlHist[i + 1].id = wlHist[i].id
       /\ ~InTable(wlHist[i].before, wlHist[i].id)
  /\ \E i \in 1..Len(wlHist) :
       /\ wlHist[i].op = "remove_from_whitelist"
       /\ ~InTable(wlHist[i].before, wlHist[i].id)

\* The ids in the whitelist table after the first k mutations of the history.
WhitelistAfter(k) ==
  IF k = 0 THEN {} ELSE {wlHist[k].after[i] : i \in 1..Len(wlHist[k].after)}

\* C11: the Whitelist a get_whitelist is about to return is the content of the
\* table after every mutation storage had executed when get_whitelist was
\* called (and possibly later ones): an id whose add has returned is in it,
\* an id whose remove has returned is not, until a later mutation changes it.
C11_WhitelistReflectsMutations ==
  \A t \in Tasks :
    Store_get_whitelist_has_result(t) =>
      (task[t].rw.ok
       /\ \E k \in task[t].sv..Len(wlHist) : task[t].rw.ids = WhitelistAfter(k))

\* A get_whitelist called after an add and a remove had executed is about to
\* return while the cache holds an entry.
C11_Witness ==
  \E t \in Tasks :
    /\ Store_get_whitelist_has_result(t)
    /\ task[t].sv >= 2
    /\ \E i, j \in 1..task[t].sv :
         wlHist[i].op = "add_to_whitelist" /\ wlHist[i].res
         /\ wlHist[j].op = "remove_from_whitelist" /\ wlHist[j].res
    /\ wlCache.ok

\* The caller changes the object it holds.
Mutates(t) ==
  /\ task[t].pc = "holding" /\ task'[t].pc = "holding"
  /\ task'[t] # task[t]

\* C14: a caller that mutates the Guild it got from get_guild, or the id set
\* of the Whitelist it got from get_whitelist, changes neither the cached
\* entries nor the tables, nor anything another coroutine holds; so what a
\* later get returns (a function of the cache and the tables) is unaffected.
C14_ReturnedCopiesAreIsolated ==
  [][\A t \in Tasks :
       Mutates(t) =>
         /\ cache' = cache /\ wlCache' = wlCache
         /\ rows' = rows /\ wl' = wl /\ disk' = disk /\ wlDisk' = wlDisk
         /\ \A u \in Tasks \ {t} : task'[u] = task[u]]_vars

\* A caller holds a Guild it has changed, another a Whitelist it has changed,
\* while the cache holds the entries as they were read from storage.
C14_Witness ==
  \E t, u \in Tasks :
    /\ task[t].pc = "holding" /\ task[t].call = "get_guild"
    /\ cache[task[t].g].ok
    /\ cache[task[t].g] = rows[task[t].g]
    /\ task[t].loc # cache[task[t].g]
    /\ task[u].pc = "holding" /\ task[u].call = "get_whitelist"
    /\ wlCache.ok
    /\ wlCache.ids = {wl[i] : i \in 1..Len(wl)}
    /\ task[u].rw # wlCache


\* C15: Store.get_guild for a guild without a row completes without error
\* and returns a record equal to the row it created, shuffle and loop
\* included; a row, once there, stays and is not reset by a read.
C15_FirstReadCreatesAndReturnsRow ==
  /\ [](\A t \in Tasks :
          task[t].call = "get_guild" =>
            /\ task[t].err = "none"
            /\ Store_get_guild_has_result(t) =>
                 /\ rows[task[t].g].ok
                 /\ task[t].loc.shuffle = rows[task[t].g].shuffle
                 /\ task[t].loc.loop = rows[task[t].g].loop)
  /\ [][\A g \in Tenants :
          rows[g].ok =>
            /\ rows'[g].ok
            /\ (\A t \in Tasks : task'[t].call = "get_guild" \/ task'[t] = task[t])
                 => rows'[g] = rows[g]]_vars

\* The storage write of the setter the coroutine runs raises.
WriteRaises(t) == task[t].spc = "wr" /\ task'[t].spc = "raised"

\* The storage write (or the insert of a read) the coroutine runs succeeds.
WriteSucceeds(t) ==
  \/ task[t].spc = "wr" /\ task'[t].spc = "inv"
  \/ task[t].spc = "ins" /\ task'[t].spc = "sel"

\* C16: when the storage write of a setter raises, the error reaches the
\* caller (the setter ends without a retry), the cache entry of the guild is
\* not invalidated and the durable row is unchanged: a durable row changes
\* only in a step in which a write to that row succeeds.
C16_FailedWriteLeavesNoTrace ==
  [][/\ \A t \in Tasks :
          WriteRaises(t) => cache' = cache /\ disk' = disk
     /\ \A t \in Tasks :
          (task[t].spc = "raised" /\ task'[t] # task[t]) =>
            task'[t] = Idle /\ cache' = cache /\ disk' = disk /\ rows' = rows
     /\ \A g \in Tenants :
          disk'[g] # disk[g] =>
            \E t \in Tasks : task[t].g = g /\ WriteSucceeds(t)]_vars

\* C17: a lookup after set_guild / set_whitelist, with no invalidate or expiry
\* since, returns the stored value; so a Store.get_guild called while the
\* cache holds the guild's entry is a hit and reads nothing from storage.
C17_LookupReturnsStored ==
  /\ [](\A g \in Tenants : cache[g].ok => TimedCache_get_guild(cache, g) = cache[g])
  /\ [](wlCache.ok => TimedCache_get_whitelist(wlCache) = wlCache)
  /\ [][\A t \in Tasks :
          (Free(t) /\ task'[t].call = "get_guild" /\ cache[task'[t].g].ok) =>
            task'[t].spc = "hit" /\ task'[t].loc = cache[task'[t].g]]_vars

\* ======================================================== Music properties
\* The coroutine takes a step.
Steps(t) == task'[t] # task[t]

\* _decide_bot_presence is about to act on the Guild get_guild returned.
Deciding(t) ==
  task[t].op = "on_queue_end" /\ task[t].pc = "decide" /\ Store_get_guild_has_result(t)

\* C3 (as claimed): of two play commands for the same guild that both arrived
\* while the bot had no voice client there and are both still in (or have
\* just failed) the readiness check, at most one has called channel.connect.
C3_SingleConnectAttempt ==
  \A t1, t2 \in Tasks :
    (/\ t1 # t2
     /\ task[t1].op = "play" /\ task[t2].op = "play"
     /\ task[t1].g = task[t2].g
     /\ ~task[t1].hadVc /\ ~task[t2].hadVc
     /\ task[t1].pc \in {"conn", "error"} /\ task[t2].pc \in {"conn", "error"})
    => ~(task[t1].conn /\ task[t2].conn)

\* C4 (as claimed): the queue of every guild holds at most MAX_QUEUE_SIZE tracks.
C4_QueueWithinMax ==
  \A gid \in Tenants : QueueLen(players[gid].queue) <= MAX_QUEUE_SIZE

\* C5 (as claimed): when the readiness check of a command has failed for a
\* guild that had no player when the command arrived, the guild has no player
\* and no voice client.
C5_NothingSurvivesGuardFailure ==
  \A t \in Tasks :
    (task[t].pc = "error" /\ task[t].err \in GuardFailures /\ ~task[t].hadPlayer)
    => (~players[task[t].g].ok /\ ~voice[task[t].g].ok)

C7_StayKeepsSession ==
  [][\A t \in Tasks :
       /\ (Deciding(t) /\ Steps(t) /\ ~task[t].loc.auto_leave)
          => (task'[t].pc = "idle" /\ players' = players /\ voice' = voice)
       /\ (Free(t) /\ task'[t].op = "play" /\ voice[task'[t].g].ok)
          => (/\ task'[t].pc \in {"search", "reply", "error"}
              /\ task'[t].pc = "error" =>
                   task'[t].err \in {"MemberNotInVoiceChannel", "DifferentVoiceChannels"}
              /\ ~task'[t].conn
              /\ voice' = voice)
       /\ (task[t].op = "play" /\ ~task[t].conn /\ task'[t].conn) => ~task[t].hadVc
       /\ (/\ task[t].op = "play" /\ task[t].pc = "search" /\ task'[t].pc = "sent"
           /\ Live(t) /\ task[t].free >= 1)
          => (/\ Len(players'[task[t].g].queue) = Len(players[task[t].g].queue) + 1
              /\ SubSeq(players'[task[t].g].queue, 1, Len(players[task[t].g].queue))
                   = players[task[t].g].queue
              /\ voice' = voice)
       /\ (/\ task[t].op = "play" /\ task[t].pc = "sent" /\ Steps(t) /\ Live(t)
           /\ ~DefaultPlayer_is_playing(players[task[t].g])
           /\ players[task[t].g].queue # << >>)
          => (/\ task'[t].pc = "playing"
              /\ players'[task[t].g].current # 0
              /\ voice' = voice)]_vars

\* After a decision to stay, a play command that never called connect has
\* enqueued and started a track on the voice client that was kept.
C7_Witness ==
  \E t \in Tasks :
    /\ task[t].op = "play" /\ task[t].pc = "playing"
    /\ task[t].drain /\ ~task[t].conn
    /\ stayed[task[t].g]
    /\ voice[task[t].g].ok
    /\ Live(t) /\ players[task[t].g].current # 0

\* C8: the Guild on_queue_end decides on is at least as new as the row
\* committed when the hook started, and the hook disconnects exactly when that
\* Guild has auto_leave = TRUE (and there is a voice client to disconnect).
C8_DecisionUsesStoredAutoLeave ==
  [][\A t \in Tasks :
       (Deciding(t) /\ Steps(t)) =>
         (/\ task[t].loc.ok
          /\ task[t].loc.ver >= task[t].sv
          /\ (task'[t].pc = "disc") <=>
               (task[t].loc.auto_leave /\ voice[task[t].g].ok))]_vars

\* A session seeded while auto_leave was TRUE has stayed at a queue end, the
\* stored auto_leave having been set to FALSE after the session was created.
C8_Witness ==
  \E gid \in Tenants :
    /\ stayed[gid]
    /\ players[gid].ok /\ players[gid].seed_al
    /\ voice[gid].ok
    /\ ~rows[gid].auto_leave

\* ======================================================= command checks
\* The step in which get_whitelist has returned and the checks of the command run.
Checking(t) == task[t].pc = "wl" /\ task'[t].pc # "wl"

\* C12: the whitelist check runs first and the first failing check ends the
\* command.  For a guild that is not in the whitelist read, the command fails
\* with GuildNotWhitelisted and the cooldown is not consulted (no token is
\* taken), no player is created and no voice client registered; a command
\* rejected by the cooldown creates no player; a command without the bot's
\* permissions has taken its token and creates no player; a player is created
\* only by a command that passed the whitelist and the cooldown.
C12_WhitelistFirst ==
  [][\A t \in Tasks :
       Checking(t) =>
         /\ (task[t].g \notin task[t].rw.ids) =>
              (/\ task'[t].pc = "error" /\ task'[t].err = "GuildNotWhitelisted"
               /\ buckets' = buckets /\ accepted' = accepted
               /\ players' = players /\ voice' = voice)
         /\ (task'[t].err = "CommandOnCooldown") =>
              (/\ task[t].g \in task[t].rw.ids
               /\ accepted' = accepted /\ players' = players /\ voice' = voice)
         /\ (task'[t].err = "BotMissingPermissions") =>
              (/\ task[t].g \in task[t].rw.ids
               /\ Len(accepted') = Len(accepted) + 1
               /\ players' = players /\ voice' = voice)
         /\ (players' # players \/ task'[t].pc \in {"guard", "search", "stop"}) =>
              (/\ task[t].g \in task[t].rw.ids
               /\ Len(accepted') = Len(accepted) + 1)]_vars

\* A command of a guild that is not whitelisted has failed its first check;
\* the guild has no player, no voice client and no Cooldown.
C12_Witness ==
  \E t \in Tasks :
    /\ task[t].pc = "error" /\ task[t].err = "GuildNotWhitelisted"
    /\ ~players[task[t].g].ok /\ ~voice[task[t].g].ok
    /\ \A c \in CooldownCommands : ~buckets[c][task[t].g].ok

\* C13 (as claimed): of the commands of one guild that passed the cooldown
\* check, at most CooldownRate arrived within any CooldownPer seconds.
C13_AtMostTwoPerWindow ==
  \A gid \in Tenants, w \in 0..MaxTime :
    Cardinality({i \in 1..Len(accepted) :
                   /\ accepted[i].g = gid
                   /\ accepted[i].at >= w
                   /\ accepted[i].at < w + CooldownPer}) <= CooldownRate

\* C18 (as claimed): a play command that finds the queue at MAX_QUEUE_SIZE is
\* answered 'queue full' and leaves the queue as it is; a play command that
\* enqueues appends the first min(free slots, retrieved tracks) tracks of its
\* result at the tail, the free slots being those the queue has, and the
\* tracks already queued keep their positions.
C18_EnqueueWithinFreeSlots ==
  [][\A t \in Tasks :
       LET gid == task'[t].g
           q   == players[task[t].g].queue
       IN  /\ (/\ task[t].pc \notin {"search", "reply"}
               /\ task'[t].op = "play" /\ task'[t].pc \in {"search", "reply"}
               /\ players[gid].ok
               /\ QueueLen(players[gid].queue) = MAX_QUEUE_SIZE)
                => /\ task'[t].pc = "reply" /\ task'[t].err = "QueueFull"
                   /\ players'[gid].queue = players[gid].queue
           /\ (/\ task[t].op = "play" /\ task[t].pc = "search"
               /\ task'[t].pc = "sent" /\ Live(t))
                => \E n \in RetrievedInputs \ {0} :
                     players'[task[t].g].queue =
                       Enqueue(q, MAX_QUEUE_SIZE - QueueLen(q), n)]_vars

\* A jump or pop command passes its checks and its body runs.
QueueCommandRuns(t) ==
  /\ Free(t)
  /\ task'[t].op \in {"jump", "pop"}
  /\ task'[t].pc # "error"

\* C19: a jump or pop whose position is beyond the queue, or that finds the
\* queue empty, answers with the violation and changes neither the queue nor
\* the current track nor anything else of the player or the voice client.
C19_OutOfRangeLeavesQueue ==
  [][\A t \in Tasks :
       LET gid == task'[t].g
       IN  (/\ QueueCommandRuns(t)
            /\ players[gid].ok
            /\ \/ players[gid].queue = << >>
               \/ task'[t].arg > QueueLen(players[gid].queue))
             => /\ task'[t].pc = "reply"
                /\ task'[t].err = IF players[gid].queue = << >>
                                    THEN "QueueEmpty" ELSE "OutOfRange"
                /\ players' = players
                /\ voice' = voice]_vars

\* A pop with a position beyond a queue of several tracks has been refused
\* while a track plays; so has a jump on an empty queue.
C19_Witness ==
  \E t, u \in Tasks :
    /\ task[t].op = "pop" /\ task[t].pc = "reply" /\ task[t].err = "OutOfRange"
    /\ players[task[t].g].current # 0
    /\ QueueLen(players[task[t].g].queue) > 1
    /\ task[t].arg > QueueLen(players[task[t].g].queue)
    /\ task[u].op = "jump" /\ task[u].pc = "reply"
    /\ task[u].err \in {"QueueEmpty", "OutOfRange"}

CreatesSession(t) ==
  /\ task[t].op = "play" /\ task[t].pc = "vol"
  /\ ~voice[task[t].g].ok /\ voice'[task[t].g].ok

\* C21 (as claimed): when a session is created, the player of the guild has
\* the volume, the shuffle flag and the loop mode of the record that the one
\* get_guild call of the creating check returned.
C21_SessionSeededFromStore ==
  [][\A t \in Tasks :
       CreatesSession(t) =>
         LET g == task[t].g
         IN  /\ players'[g].ok
             /\ players'[g].volume = task[t].loc.volume
             /\ players'[g].shuffle = task[t].loc.shuffle
             /\ players'[g].loop = task[t].loc.loop]_vars

\* A live session of guild g: a voice client and a registered player.
LiveSession(g) == voice[g].ok /\ players[g].ok

\* The command of task t (shuffle, loop or volume) takes its last step before
\* the reply in a live session.
SettingCompletes(t, cmd) ==
  /\ task[t].op = cmd /\ task[t].pc # "reply" /\ task'[t].pc = "reply"
  /\ LiveSession(task[t].g) /\ LiveSession(task[t].g)'

\* C22 (volume): when a volume command completes in a live session while no
\* other volume command of the guild is running, the player's volume equals
\* the stored volume, the level of the command.
C22_VolumeMatchesPlayer ==
  [][\A t \in Tasks :
       (/\ SettingCompletes(t, "volume")
        /\ \A u \in Tasks \ {t} : task[u].op # "volume") =>
         /\ players'[task[t].g].volume = rows'[task[t].g].volume
         /\ players'[task[t].g].volume = task[t].arg]_vars

\* The loop command of task t runs its Store call on a stored row.
LoopSwitches(t) ==
  /\ task[t].op = "loop" /\ task[t].spc = "wr" /\ task'[t].pc = "reply"
  /\ rows[task[t].g].ok

\* C23: the loop command toggles the stored loop flag, leaves the stored
\* shuffle flag as it was and gives the registered player the new stored loop
\* flag as its loop mode.
C23_LoopTogglesLoopOnly ==
  [][\A t \in Tasks :
       LoopSwitches(t) =>
         LET g == task[t].g
         IN  /\ rows'[g].loop = ~rows[g].loop
             /\ rows'[g].shuffle = rows[g].shuffle
             /\ players[g].ok => players'[g].loop = rows'[g].loop]_vars

\* The seek command of task t runs with a position its transformer accepted.
SeekRuns(t) ==
  /\ Free(t) /\ task'[t].op = "seek"
  /\ SeekTimeTransformer_transform(task'[t].val).ok

\* C24: a seek beyond the duration of the current track asks the player for
\* nothing, leaves the playback position and replies with the duration of the
\* track (read back as a position, the text gives the duration to the second);
\* a seek within the duration asks for the position given, and the playback
\* of the track is there when the player has answered.
C24_SeekWithinDuration ==
  [][\A t \in Tasks :
       LET g == task[t].g
       IN  /\ SeekRuns(t) =>
                LET d == TrackDuration(players[task'[t].g].current)
                    milli == SeekTimeTransformer_transform(task'[t].val).milli
                IN  IF milli > d
                      THEN /\ task'[t].pc = "reply"
                           /\ players' = players
                           /\ SeekTimeTransformer_transform(task'[t].out) =
                                [ok |-> TRUE, milli |-> d - (d % 1000)]
                      ELSE /\ task'[t].pc = "seeking"
                           /\ task'[t].arg = milli
           /\ (/\ task[t].op = "seek" /\ task[t].pc = "seeking"
               /\ task'[t].pc = "reply"
               /\ Live(t) /\ players[g].current = task[t].sv) =>
                players'[g].position = task[t].arg]_vars

\* A pause, resume, skip or seek command of a member in the bot's channel
\* runs on task t.
ControlRuns(t) ==
  /\ Free(t) /\ task'[t].op \in Controls
  /\ voice[task'[t].g].ok
  /\ task'[t].mch = voice[task'[t].g].channel

\* C25: in a session without a current track pause, resume, skip and seek end
\* with the not-playing failure and change nothing; pause on a paused player
\* and resume on a player that is not paused only reply.
C25_NotApplicableChangesNothing ==
  [][\A t \in Tasks :
       ControlRuns(t) =>
         LET g == task'[t].g
             same == /\ players' = players /\ voice' = voice
                     /\ rows' = rows /\ vcDestroyed' = vcDestroyed
         IN  /\ (players[g].ok /\ players[g].current = 0) =>
                  task'[t].err = "NotPlaying" /\ task'[t].pc = "error" /\ same
             /\ (/\ DefaultPlayer_is_playing(players[g])
                 /\ task'[t].op = "pause" /\ players[g].paused) =>
                  task'[t].pc = "reply" /\ same
             /\ (/\ DefaultPlayer_is_playing(players[g])
                 /\ task'[t].op = "resume" /\ ~players[g].paused) =>
                  task'[t].pc = "reply" /\ same]_vars

\* One command was refused as not playing and is still to be reported while
\* a pause has found the player paused.
C25_Witness ==
  \E t, u \in Tasks :
    /\ task[t].op \in Controls /\ task[t].err = "NotPlaying" /\ task[t].hadVc
    /\ task[u].op = "pause" /\ task[u].err = "AlreadyPaused"
    /\ voice[task[u].g].ok /\ players[task[u].g].paused

\* The guild has neither a voice client nor a registered player.
TenantAbsent(g) == ~voice[g].ok /\ ~players[g].ok

\* The leave command of task t has passed its guards and the session it
\* found is still there.
LeavePassed(t, g) ==
  /\ task[t].op = "leave" /\ task[t].g = g /\ task[t].pc = "stop"
  /\ voice[g].ok /\ voice[g].id = task[t].vref

\* The steps of a leave that passed its guards: the queue is cleared, then
\* the player has no current track, then the voice client the command holds,
\* if it is still the guild's, is unregistered together with the player.
LeaveSteps ==
  [][\A t \in Tasks :
       /\ (Free(t) /\ task'[t].op = "leave" /\ task'[t].pc = "stop") =>
            players'[task'[t].g].queue = << >>
       /\ (LeavePassed(t, task[t].g) /\ task'[t].pc = "disc" /\ Live(t)) =>
            players'[task[t].g].current = 0
       /\ (/\ task[t].op = "leave" /\ task[t].pc = "disc" /\ task'[t].pc # "disc"
           /\ voice[task[t].g].ok /\ voice[task[t].g].id = task[t].vref) =>
            TenantAbsent(task[t].g)']_vars

\* C26: a leave that passed its guards clears the queue, stops the player,
\* unregisters the voice client and the player of the session, and leads to a
\* state in which the guild has neither a voice client nor a player.
C26_LeaveLeadsToAbsent ==
  /\ LeaveSteps
  /\ \A g \in MusicGuilds :
       (\E t \in Tasks : LeavePassed(t, g)) ~> TenantAbsent(g)

\* The disconnect of a leave has returned and the guild is absent.
C26_Witness ==
  \E t \in Tasks :
    /\ task[t].op = "leave" /\ task[t].pc = "left"
    /\ TenantAbsent(task[t].g)

\* The listener of voice state updates runs on task t in a session.
ListenerRuns(t) ==
  /\ Free(t) /\ task'[t].op = "on_voice_state_update"
  /\ voice[task'[t].g].ok /\ players[task'[t].g].ok

\* The update of the listener on task t touches the bot's channel.
TouchesBotChannel(t) ==
  LET channel_id == voice[task'[t].g].channel
  IN  task'[t].mch = channel_id \/ task'[t].arg = channel_id

\* The listener on task t has found the bot alone and its session is still
\* there.
AloneFound(t, g) ==
  /\ task[t].op = "on_voice_state_update" /\ task[t].g = g /\ task[t].pc = "stop"
  /\ voice[g].ok /\ voice[g].id = task[t].vref

\* C27: a voice state update on the bot's channel that leaves the bot alone
\* there makes the listener clear the queue and stop the player, and leads to
\* the voice client being unregistered; an update that leaves another member
\* in the channel changes neither the player nor the voice client.
C27_AloneInChannelDisconnects ==
  /\ [][\A t \in Tasks :
          (ListenerRuns(t) /\ TouchesBotChannel(t)) =>
            LET g == task'[t].g
            IN  /\ (task'[t].flag /\ task'[t].free = 0) =>
                     /\ task'[t].pc = "stop"
                     /\ players'[g].queue = << >>
                /\ task'[t].free > 0 =>
                     /\ task'[t].pc = "return"
                     /\ players' = players /\ voice' = voice]_vars
  /\ [][\A t \in Tasks :
          (AloneFound(t, task[t].g) /\ task'[t].pc = "disc" /\ Live(t)) =>
            players'[task[t].g].current = 0]_vars
  /\ \A g \in MusicGuilds :
       (\E t \in Tasks : AloneFound(t, g)) ~> ~voice[g].ok

\* The listener that found the bot alone while a track was playing has
\* disconnected the voice client.
C27_Witness ==
  \E t \in Tasks :
    /\ task[t].op = "on_voice_state_update" /\ task[t].pc = "left"
    /\ TenantAbsent(task[t].g)

\* C28: a track-started event for a guild the bot is no longer in leaves no
\* player registered for it; for a guild the bot is in it changes neither
\* players, voice clients nor stored rows.
C28_TrackStartRevalidatesGuild ==
  [][\A t \in Tasks :
       (Free(t) /\ task'[t].op = "on_track_start") =>
         IF task'[t].flag
           THEN players' = players /\ voice' = voice /\ rows' = rows
           ELSE ~players'[task'[t].g].ok]_vars

\* on_track_start has destroyed the player of a guild that is gone.
C28_Witness ==
  \E t \in Tasks :
    /\ task[t].op = "on_track_start" /\ ~task[t].flag
    /\ ~players[task[t].g].ok

\* The attempt of on_track_load_failed on task t raises.
LoadFailedRaises(t) ==
  /\ task[t].op = "on_track_load_failed" /\ task[t].pc = "load"
  /\ task'[t].op = "on_track_load_failed" /\ task'[t].pc = "decide"

\* on_track_load_failed starts on task t (an event arrives, or the event
\* dispatched inside its own attempt does) for a guild the bot is in.
LoadFailedHandled(t) ==
  \/ Free(t) /\ task'[t].op = "on_track_load_failed" /\ task'[t].flag
  \/ /\ task[t].op = "on_track_load_failed" /\ task[t].pc = "load"
     /\ task'[t] # task[t]
     /\ task'[t].pc # "return" /\ ~LoadFailedRaises(t)

\* C29: each track-load-failed event of a guild the bot is in makes one
\* attempt to play the next queued track (the next track becomes the current
\* one, or the player stops and the queue-ended decision runs); when the
\* attempt raises, no further attempt is made and the decision of
\* on_queue_end runs: store.get_guild, then a disconnect exactly when its
\* auto_leave is set.
C29_OneAttemptThenDecision ==
  [][\A t \in Tasks :
       LET g == task[t].g
       IN  /\ LoadFailedHandled(t) =>
                LET h == task'[t].g
                    p == players[h]
                IN  IF ~p.ok \/ (task[t].op # "none" /\ ~Live(t))
                      THEN players' = players
                    ELSE IF DefaultPlayer_play_indices(p) = {}
                      THEN /\ players'[h] = DefaultPlayer_play_nothing(p)
                           /\ task'[t] = Music_on_queue_end(h)
                      ELSE /\ \E i \in DefaultPlayer_play_indices(p) :
                                players'[h] = DefaultPlayer_play(p, i)
                           /\ task'[t].pc = "load" /\ task'[t].arg = 1
           /\ LoadFailedRaises(t) =>
                /\ players' = players
                /\ task'[t].call = Music_on_queue_end(g).call
                /\ task'[t].spc = Music_on_queue_end(g).spc
           /\ (/\ task[t].op = "on_track_load_failed" /\ task[t].pc = "decide"
               /\ task'[t].pc # "decide") =>
                /\ players' = players
                /\ (task'[t].pc = "disc") = (task[t].loc.auto_leave /\ voice[g].ok)
                /\ task'[t].pc \in {"disc", "idle"}]_vars

\* The attempt of on_track_load_failed has raised and the decision, taken
\* with auto_leave set, disconnects the voice client.
C29_Witness ==
  \E t \in Tasks :
    /\ task[t].op = "on_track_load_failed" /\ task[t].pc = "disc"
    /\ players[task[t].g].ok /\ voice[task[t].g].ok

\* on_track_load_failed awaits an attempt for guild g.
LoadFailedChain(g) ==
  \E t \in Tasks :
    task[t].op = "on_track_load_failed" /\ task[t].g = g /\ task[t].pc = "load"

\* The decision of on_queue_end is being taken on task t.
QueueEndDeciding(t) == task[t].op = "on_queue_end" /\ task[t].pc = "decide"

\* play() has found the queue of guild g empty and on_queue_end is deciding.
QueueEnded(g) ==
  /\ players[g].queue = << >>
  /\ \E t \in Tasks : QueueEndDeciding(t) /\ task[t].g = g

\* C30: when every track fails to load, the attempts of on_track_load_failed
\* lead to an empty queue with on_queue_end deciding, and the decision is
\* taken.
C30_LoadFailedChainEnds ==
  /\ \A g \in MusicGuilds : LoadFailedChain(g) ~> QueueEnded(g)
  /\ \A t \in Tasks : QueueEndDeciding(t) ~> ~QueueEndDeciding(t)

\* ------------------------------------------------ Store properties: switches
\* The flag a switch method is about: the stored one, or the column default
\* for a guild that has no row yet.
StoredFlag(rs, gid, call) ==
  LET row == IF rs[gid].ok THEN rs[gid] ELSE DefaultRow
  IN  IF call = "switch_guild_shuffle" THEN row.shuffle ELSE row.loop

\* The statement of the switch method called by task t runs.
SwitchRuns(t) ==
  /\ task[t].op = "store" /\ task[t].spc = "wr"
  /\ task[t].call \in {"switch_guild_shuffle", "switch_guild_loop"}
  /\ task'[t].spc = "inv"

\* C33: a call of switch_guild_shuffle / switch_guild_loop leaves the stored
\* flag flipped and returns the new value, also for a guild without a row
\* (the result is then the negation of the column default).
C33_SwitchFlipsAndReturnsNew ==
  [][\A t \in Tasks :
       SwitchRuns(t) =>
         LET g == task[t].g
             before == StoredFlag(rows, g, task[t].call)
         IN  /\ StoredFlag(rows', g, task[t].call) = ~before
             /\ task'[t].rb = ~before]_vars

\* The Store setter called by task t invalidates the cache and returns.
SetterReturns(t) ==
  /\ task[t].op = "store" /\ task[t].spc = "inv"
  /\ task[t].call \in {"set_guild_filter", "set_guild_volume", "set_guild_auto_leave",
                       "switch_guild_shuffle", "switch_guild_loop"}
  /\ task'[t] = Idle

\* C34: when a Store setter (the switches included) invalidates the cache and
\* returns, the row it wrote is committed: the committed table holds the
\* guild's row at the version of its write or a later one.
C34_SetterReturnsCommitted ==
  [][\A t \in Tasks :
       SetterReturns(t) =>
         /\ disk[task[t].g].ok
         /\ disk[task[t].g].ver >= task[t].sv]_vars

\* The column a Store setter writes.
SetterField(call) ==
  CASE call = "set_guild_filter" -> "filter"
    [] call = "set_guild_volume" -> "volume"
    [] call = "set_guild_auto_leave" -> "auto_leave"
    [] call = "switch_guild_shuffle" -> "shuffle"
    [] call = "switch_guild_loop" -> "loop"

GuildColumns == {"filter", "volume", "auto_leave", "shuffle", "loop"}

\* The values of a guild's row; a guild without a row has the column defaults.
RowValues(rs, gid) == IF rs[gid].ok THEN rs[gid] ELSE DefaultRow

\* The storage method of the setter called by task t runs (statement and,
\* where the method has one, commit).
SetterWrites(t) ==
  /\ task[t].op = "store" /\ task[t].spc = "wr"
  /\ task[t].call \in {"set_guild_filter", "set_guild_volume", "set_guild_auto_leave",
                       "switch_guild_shuffle", "switch_guild_loop"}
  /\ task'[t].spc = "inv"

\* Table tbl differs between the two states at most in column `field` of the
\* row of guild gid (and in that row coming into existence).
OnlyFieldChanged(before, after, gid, field) ==
  /\ \A c \in GuildColumns \ {field} :
       RowValues(after, gid)[c] = RowValues(before, gid)[c]
  /\ \A h \in Tenants \ {gid} :
       /\ after[h].ok = before[h].ok
       /\ \A c \in GuildColumns : after[h][c] = before[h][c]

\* C36: a Store setter changes only its own field of the guild's durable row:
\* the other fields of that row and the rows of the other guilds are, in the
\* committed table, what they were before the setter ran.
C36_SetterChangesOwnFieldOnly ==
  [][\A t \in Tasks :
       SetterWrites(t) =>
         OnlyFieldChanged(disk, disk', task[t].g, SetterField(task[t].call))]_vars

\* ------------------------------------------------ guarded command properties
\* A command that runs _ensure_player_is_ready arrives at task t from a
\* member in voice channel mch.
GuardedArrives(t, g, mch) ==
  \/ \E full \in BOOLEAN : Music_play(t, g, mch, full)
  \/ Music_guarded_command(t, g, mch)

\* C32: a command from a member who is in a voice channel other than the one
\* of the bot's voice client ends with _DifferentVoiceChannels; queue, current
\* track and player channel of the guild are as before and the voice client
\* is still the one in the bot's channel.
C32_OtherChannelRejected ==
  [][\A t \in Tasks, g \in MusicGuilds, mch \in MemberChannels \ {0} :
       (/\ voice[g].ok /\ mch # voice[g].channel
        /\ GuardedArrives(t, g, mch)) =>
         /\ task'[t].pc = "error" /\ task'[t].err = "DifferentVoiceChannels"
         /\ voice' = voice
         /\ players'[g].queue = players[g].queue
         /\ players'[g].current = players[g].current
         /\ players'[g].channel = players[g].channel]_vars

\* A command was refused for the member's channel while the session had a
\* current track and a queued one.
C32_Witness ==
  \E t \in Tasks :
    /\ task[t].pc = "error" /\ task[t].err = "DifferentVoiceChannels"
    /\ voice[task[t].g].ok
    /\ players[task[t].g].current # 0
    /\ players[task[t].g].queue # << >>

\* The result of a guarded command other than play that found no voice
\* client: it is in the error handler, has called neither the Store nor
\* connect, no voice client is registered, and the guild's player is the one
\* it had or a new one with lavalink's initial values.
RefusedUnprepared(t, g) ==
  /\ task'[t].pc = "error"
  /\ task'[t].call = "none" /\ ~task'[t].conn
  /\ voice' = voice
  /\ rows' = rows
  /\ players'[g] = IF players[g].ok THEN players[g] ELSE NewPlayer(players'[g].id)

SessionBusy(g) ==
  /\ voice[g].ok /\ players[g].ok
  /\ (players[g].current # 0 \/ players[g].queue # << >>)

\* C35: no step of a presence leave command ends a session that has a
\* current track or queued tracks: the guild's voice client and player stay
\* registered (they are released by the queue-end hook only).
C35_LeaveModeKeepsBusySession ==
  [][\A t \in Tasks :
       (/\ task[t].op = "presence_leave" /\ task'[t] # task[t]
        /\ SessionBusy(task[t].g)) =>
         /\ voice'[task[t].g] = voice[task[t].g]
         /\ players'[task[t].g].ok]_vars

\* ---------------------------------------------------------- jump properties
\* Queues q and r hold the same tracks in the same order.
SameTracks(q, r) ==
  /\ QueueLen(q) = QueueLen(r)
  /\ \A i \in 1..QueueLen(q) : QueueAt(q, i) = QueueAt(r, i)

\* C37: a jump to position p within the queue makes the track at position p
\* the current track and leaves the tracks after position p as the queue, in
\* their order, with shuffle enabled or not.
C37_JumpPlaysPosition ==
  [][\A t \in Tasks, g \in MusicGuilds, mch \in CheckedMemberChannels,
        p \in JumpPositions :
       (/\ Music_jump(t, g, mch, p)
        /\ task'[t].pc = "skip") =>
         /\ players'[g].current = QueueAt(players[g].queue, p)
         /\ SameTracks(players'[g].queue, QueueDrop(players[g].queue, p))]_vars

\* ---------------------------------------------------- event hook properties
\* Task t runs the hook of a queue-end event.
HookRuns(t) == task[t].op = "on_queue_end" /\ task[t].pc \in {"decide", "logged"}

\* C31: a queue-end hook whose Store call raises is logged by the dispatcher,
\* which then returns: no other coroutine, player or voice client is touched,
\* and every hook, whether delivered before or after the failure and for
\* whichever guild, runs to its end.
C31_FailedHookDoesNotStopEvents ==
  /\ [][\A t \in Tasks :
          Music_decide_get_guild_failed(t) =>
            /\ task'[t].pc = "logged" /\ task'[t].err = "StorageError"
            /\ \A u \in Tasks \ {t} : task'[u] = task[u]]_vars
  /\ \A t \in Tasks : (task[t].pc = "logged") ~> Free(t)
  /\ \A t \in Tasks : HookRuns(t) ~> Free(t)

\* While the failure of one hook is being logged, the hook of a queue-end
\* event of the other guild, delivered after the failure, has got its Guild
\* from the Store.
C31_Witness ==
  \E t, u \in Tasks :
    /\ task[t].pc = "logged" /\ task[t].err = "StorageError"
    /\ task[u].op = "on_queue_end" /\ task[u].pc = "decide"
    /\ task[u].g # task[t].g
    /\ Store_get_guild_has_result(u)
    /\ nIn > task[t].arg

\* ------------------------------------------- events after the session ended
\* The hook of a queue-end or track-load-failed event run by task t has the
\* Guild from the Store and takes its decision.
HookDecides(t) ==
  /\ task[t].op \in {"on_queue_end", "on_track_load_failed"}
  /\ task[t].pc = "decide"
  /\ Store_get_guild_has_result(t)
  /\ task'[t] # task[t]

\* A hook's disconnect resumes after change_voice_state.
HookDisconnects(t) ==
  /\ task[t].op \in {"on_queue_end", "on_track_load_failed"}
  /\ task[t].pc = "disc"
  /\ task'[t] # task[t]

\* C39: a queue-end or track-load-failed hook that decides when the guild's
\* voice client is gone does nothing: it does not take the branch that calls
\* disconnect on guild.voice_client (None), and players and voice clients are
\* as they were; and a hook's disconnect never runs without a player.
C39_EventsAfterReleaseAreNoOps ==
  /\ [][\A t \in Tasks :
          (HookDecides(t) /\ ~voice[task[t].g].ok) =>
            /\ ~AutoLeave(t)
            /\ task'[t] = Idle
            /\ players' = players /\ voice' = voice]_vars
  /\ [][\A t \in Tasks : HookDisconnects(t) => task[t].pref # 0]_vars

\* ------------------------------------------------ Teardown properties
\* Identities of the voice clients some object still refers to: the guild's
\* registered one and those a disconnect in flight runs on.
VoiceClientsInUse ==
  {voice[g].id : g \in {x \in MusicGuilds : voice[x].ok}}
    \cup {task[t].vref : t \in {u \in Tasks : task[u].pc = "disc"}}

\* The voice client whose _destroy runs in the step for guild g: the one of
\* the disconnect that resumes, else the registered one.
DestroyRunsOn(g) ==
  IF \E t \in Tasks : task[t].pc = "disc" /\ task'[t].pc # "disc"
    THEN {task[t].vref : t \in {u \in Tasks : task[u].pc = "disc" /\ task'[u].pc # "disc"}}
    ELSE {voice[g].id}

\* C40: a voice client destroys the player at most once however disconnect
\* calls and null voice state updates interleave: a step removes a guild's
\* player only through a voice client whose flag was not set, the step sets
\* it and the flag of a client in use is never cleared; a non-forced
\* disconnect on a player that is not connected changes nothing.
C40_PlayerDestroyedAtMostOnce ==
  [][/\ \A g \in MusicGuilds :
          players[g].ok /\ ~players'[g].ok
            => /\ DestroyRunsOn(g) \cap vcDestroyed = {}
               /\ DestroyRunsOn(g) \subseteq vcDestroyed'
     /\ (vcDestroyed \cap VoiceClientsInUse) \subseteq vcDestroyed'
     /\ \A t \in Tasks, g \in MusicGuilds :
          LavalinkVoiceClient_disconnect_unforced(t, g) /\ players[g].channel = 0
            => UNCHANGED <<players, voice, vcDestroyed, task, GuardVars, StoreVars>>]_vars

\* A disconnect is resuming on a voice client that a null voice state update
\* already destroyed, while the guild has a player again.
C40_Witness ==
  \E t \in Tasks :
    /\ task[t].pc = "disc"
    /\ task[t].vref \in vcDestroyed
    /\ players[task[t].g].ok

====
